---------------------------- MODULE Spec2Model ----------------------------
(***************************************************************************)
(* Model of the Ethereum feature extractor (src/extractor.py) and of the   *)
(* VM orchestrator that fans it out (src/vm_orchestrator.py).              *)
(*                                                                         *)
(* Time is counted in ticks, the resolution of datetime/timedelta (one     *)
(* microsecond in Python).  The calendar is scaled down: a second is       *)
(* TicksPerSecond ticks, a minute SecondsPerMinute seconds, and so on.     *)
(* Block timestamps are whole seconds, as eth_getBlockByNumber gives them. *)
(***************************************************************************)
EXTENDS Integers, Sequences, FiniteSets, TLC

VARIABLES
    \* ---- the chain served by the provider, and the block locator
    chain,              \* chain[b + 1] = timestamp (seconds) of block b, b = 0..head
    target_timestamp,   \* argument of _get_block_number_by_timestamp
    latest_block_num,   \* answer of _get_latest_block_number (None when unavailable)
    low, high,          \* the search window
    closest_block,      \* best block so far; the value returned
    lpc,                \* position in the locator: "idle", "call", "loop", "done"
    probed,             \* history: the header probes issued, <<block, answered>>
    \* ---- the extractor's configuration (_load_config) and the interval planner
    start_dt, end_dt,   \* INTERVAL_START / INTERVAL_END, parsed (ticks)
    interval_type,      \* INTERVAL_SPAN_TYPE
    interval_length,    \* INTERVAL_SPAN_LENGTH, the float num/den
    observations_per_interval,   \* OBSERVATIONS_PER_INTERVAL
    intervals,          \* the list returned by _generate_time_intervals
    ppc,                \* position in the planner: "idle", "call", "done", "raised", "hung"
    \* ---- the orchestrator's configuration and the per-VM time ranges
    start_date, end_date,   \* START_DATE / END_DATE, parsed (ticks)
    num_vms,            \* NUM_VMS
    vm_ranges,          \* vm_index -> the (start, end) texts _get_vm_time_range returned
    \* ---- one interval's extraction and summaries
    block,              \* transactions of the block fetched last (line 298)
    transactions,       \* features of the transactions collected for the interval
    validators,         \* those of them tagged validator
    whale_result,       \* dict built at lines 358-360
    validators_result,  \* dict built at lines 363-365
    \* ---- EthereumExtractor.run on one VM
    pc,                 \* position in run()
    i,                  \* index of the interval being processed (enumerate)
    start_block, end_block,   \* the block range resolved for the interval
    block_num,          \* the block being fetched
    fetched,            \* history: the full-block fetches of the interval, <<block, answered>>
    whale_file,         \* <first>_whale_transactions.csv
    validator_file,     \* <first>_validator_transactions.csv
    aggregated_results, \* aggregated_results.csv
    status_file,        \* status.txt
    raised,             \* the exception that left run(), "" when none
    \* ---- EthereumVMOrchestrator.cleanup, for that VM
    results,            \* results[vm_name], "" before the status check
    status_at_check,    \* history: the extractor's status when the check was made
    downloaded,         \* the VM's data directory as _download_data copied it
    \* ---- the construction of an extractor or of an orchestrator
    loader,             \* whose _load_config runs: "extractor" or "orchestrator"
    env,                \* the environment after load_dotenv: required key -> value
    config_error,       \* the exception _load_config raised, with the keys its text names
    cpc,                \* position in __init__: "idle", "call", "loaded", "constructed", "raised"
    \* ---- EthereumVMOrchestrator.setup and cleanup, over all VMs
    cloud,              \* the numbers of the eth-extractor VMs that exist in the project
    command,            \* the operation invoked: "setup" or "cleanup"
    fleet_size,         \* NUM_VMS of the orchestrator that runs the command
    fpc,                \* position in setup() / cleanup()
    existing_vms,       \* the list _list_existing_vms returned
    setup_result,       \* the dict setup() builds and returns
    cleanup_results,    \* the dict cleanup() builds and returns
    completed_vms,      \* the VMs cleanup() found COMPLETED
    vm_k,               \* position in the list a loop of cleanup() walks
    events,             \* history: list, create, download, delete, merge, in order
    local_dirs,         \* the VM directories of the local data directory
    aggregated_from,    \* <<the VM directories _aggregate_data read>>, <<>> before
    deploy_outcome,     \* what the command layer reports after setup()
    \* ---- the merge steps
    vm_data_dir,        \* the data directory of an extractor: <<name, file>> entries
    data_dir,           \* the local data directory: <<directory name, directory>> entries
    downloaded_data,    \* history: the local data directory as it was downloaded
    merge_log,          \* history: who merged, what was raised, the output left
    \* ---- the start of the workers: _create_vm, then the extractor on each VM
    provider_urls,      \* ETHEREUM_PROVIDER_URLS, split at the commas
    vm_config,          \* the extraction parameters the orchestrator hands on
    dot_env,            \* vm_index -> the .env its startup script writes
    vm_created,         \* vm_index -> whether gcloud created the VM
    worker_error,       \* vm_index -> what the extractor's _load_config raised
    worker_intervals    \* vm_index -> what the worker's planner returned

locVars == <<chain, target_timestamp, latest_block_num, low, high,
             closest_block, lpc, probed>>

cfgVars == <<start_dt, end_dt, interval_type, interval_length,
             observations_per_interval>>

planVars == <<intervals, ppc>>

splitVars == <<start_date, end_date, num_vms, vm_ranges>>

sumVars == <<block, transactions, validators, whale_result, validators_result>>

runVars == <<pc, i, start_block, end_block, block_num, fetched, whale_file,
             validator_file, aggregated_results, status_file, raised>>

orchVars == <<results, status_at_check, downloaded>>

envVars == <<loader, env, config_error, cpc>>

fleetVars == <<cloud, command, fleet_size, fpc, existing_vms, setup_result,
               cleanup_results, completed_vms, vm_k, events, local_dirs,
               aggregated_from, deploy_outcome>>

mergeVars == <<vm_data_dir, data_dir, downloaded_data, merge_log>>

bootVars == <<provider_urls, vm_config, dot_env, vm_created, worker_error,
              worker_intervals>>

ctlVars == <<envVars, fleetVars, mergeVars, bootVars>>

vars == <<locVars, cfgVars, planVars, splitVars, sumVars, runVars, orchVars, ctlVars>>

-----------------------------------------------------------------------------
(* Bounds of the model *)

MaxHead == 4            \* highest head block number of a chain
MaxTs == 4              \* highest block timestamp / target, in seconds
MaxMinute == 9          \* INTERVAL_START and INTERVAL_END lie in minutes 0..MaxMinute
MaxLenNum == 3          \* numerator of INTERVAL_SPAN_LENGTH
MaxVMs == 4             \* NUM_VMS lies in 1..MaxVMs
MaxBlockTxs == 2        \* transactions in one block
MaxRunHead == 2         \* highest head block number of the chain a run reads

\* the scaled calendar
TicksPerSecond == 2
SecondsPerMinute == 2
MinutesPerHour == 2
HoursPerDay == 2

-----------------------------------------------------------------------------
(* Python values *)

\* Python's None where an Optional[int] is returned (block numbers are >= 0)
None == -1

\* truth value of an Optional[int]: None and 0 are both falsy
Falsy(x) == x = None \/ x = 0

-----------------------------------------------------------------------------
(* The chain *)

HeadOf(c) == Len(c) - 1
BlockTs(c, b) == c[b + 1]

\* block timestamps never decrease with the block number
Monotone(c) == \A k \in 1..(Len(c) - 1) : c[k] <= c[k + 1]

Chains == UNION { { c \in [1..n -> 0..MaxTs] : Monotone(c) } : n \in 1..(MaxHead + 1) }

-----------------------------------------------------------------------------
(* Block locator: EthereumExtractor._get_block_number_by_timestamp *)

Mid(lo, hi) == (lo + hi) \div 2

\* block_timestamp <= target_timestamp, mutated to a strict comparison
NotAfterStrict(block_timestamp, target) == block_timestamp < target

\* the test of line 184
NotAfter(block_timestamp, target) == block_timestamp <= target

\* the iteration with lines 179-180 mutated: a failed probe leaves the window
BinarySearchStepNoShrink(s, answer, target) ==
    LET mid == Mid(s.low, s.high) IN
    IF answer = None
      THEN s
      ELSE IF NotAfter(answer, target)
             THEN [s EXCEPT !.closest = mid, !.low = mid + 1]
             ELSE [s EXCEPT !.high = mid - 1]

\* One iteration of the while loop on window s = [low, high, closest]:
\* answer is the timestamp of block mid, or None when the probe failed or the
\* block carries no timestamp.
BinarySearchStep(s, answer, target) ==
    LET mid == Mid(s.low, s.high) IN
    IF answer = None
      THEN [s EXCEPT !.high = mid - 1]
      ELSE IF NotAfter(answer, target)
             THEN [s EXCEPT !.closest = mid, !.low = mid + 1]
             ELSE [s EXCEPT !.high = mid - 1]

\* the answers the provider can give to the header probe of block b
ProbeAnswers(b) == {None, BlockTs(chain, b)}

\* eth_blockNumber: the head number, or None when the request fails
HeadAnswers == {None, HeadOf(chain)}

\* lines 166-172: the head query, then the window [1, latest]
LocHead ==
    /\ lpc = "call"
    /\ \E answer \in HeadAnswers :
         /\ latest_block_num' = answer
         /\ IF Falsy(answer)
              THEN /\ lpc' = "done"
                   /\ UNCHANGED <<low, high>>
              ELSE /\ lpc' = "loop"
                   /\ low' = 1
                   /\ high' = answer
    /\ closest_block' = None
    /\ probed' = <<>>
    /\ UNCHANGED <<chain, target_timestamp>>

\* lines 174-192: one probe of the loop; the loop ends when the window is empty
LocProbe ==
    /\ lpc = "loop"
    /\ low <= high
    /\ LET mid == Mid(low, high) IN
       \E answer \in ProbeAnswers(mid) :
         LET s == BinarySearchStep([low |-> low, high |-> high, closest |-> closest_block],
                                   answer, target_timestamp) IN
         /\ low' = s.low
         /\ high' = s.high
         /\ closest_block' = s.closest
         /\ probed' = Append(probed, <<mid, answer # None>>)
         /\ lpc' = IF s.low <= s.high THEN "loop" ELSE "done"
    /\ UNCHANGED <<chain, target_timestamp, latest_block_num>>

LocIdle ==
    /\ chain = <<0>>
    /\ target_timestamp = 0
    /\ latest_block_num = None
    /\ low = 1
    /\ high = 0
    /\ closest_block = None
    /\ lpc = "idle"
    /\ probed = <<>>

-----------------------------------------------------------------------------
(* Calendar and timedelta *)

Second == TicksPerSecond
Minute == SecondsPerMinute * Second
Hour == MinutesPerHour * Minute
Day == HoursPerDay * Hour

Min(a, b) == IF a <= b THEN a ELSE b

\* n / d rounded to the nearest integer, ties to even: how timedelta rounds a
\* float argument, and a division, to whole microseconds (n >= 0, d > 0)
RoundHalfEven(n, d) ==
    LET q == n \div d
        r == n % d
    IN  IF 2 * r < d THEN q
        ELSE IF 2 * r > d THEN q + 1
        ELSE IF q % 2 = 0 THEN q ELSE q + 1

SupportedTypes == {"day", "hour", "minute"}
IntervalTypes == SupportedTypes \cup {"week"}

UnitTicks(type) ==
    CASE type = "day" -> Day
      [] type = "hour" -> Hour
      [] type = "minute" -> Minute

\* a float given as the fraction num/den
Lengths == { [num |-> n, den |-> d] : n \in 1..MaxLenNum, d \in {1, 2, 2 * Day + 1} }

\* timedelta(days=length), timedelta(hours=length), timedelta(minutes=length)
Timedelta(type, length) == RoundHalfEven(length.num * UnitTicks(type), length.den)

\* the datetimes strptime('%Y-%m-%d-%H:%M') can give: whole minutes
MinuteTimes == { m * Minute : m \in 0..MaxMinute }

-----------------------------------------------------------------------------
(* Interval planner: _normalize_to_interval_boundary, _generate_time_intervals *)

\* dt.replace(hour=0, minute=0, second=0, microsecond=0) and its shorter forms
NormalizeToIntervalBoundary(dt, type) ==
    IF type \in SupportedTypes THEN dt - (dt % UnitTicks(type)) ELSE dt

\* line 266 without the min(): the last interval may overshoot the end
IntervalEndNoMin(current, delta, end) == current + delta

\* line 266
IntervalEnd(current, delta, end) == Min(current + delta, end)

\* lines 265-268, for delta > 0
RECURSIVE WhileCurrentBeforeEnd(_, _, _, _)
WhileCurrentBeforeEnd(acc, current, end, delta) ==
    IF current < end
      THEN LET interval_end == IntervalEnd(current, delta, end) IN
           WhileCurrentBeforeEnd(Append(acc, <<current, interval_end>>),
                                 interval_end, end, delta)
      ELSE acc

\* the outcome of _generate_time_intervals: the list, a ValueError for an
\* unsupported type, or a loop that never ends when delta is zero
GenerateTimeIntervals(start, end, type, length) ==
    LET current == NormalizeToIntervalBoundary(start, type)
        stop == NormalizeToIntervalBoundary(end, type)
    IN  IF type \notin SupportedTypes
          THEN [outcome |-> "raised", intervals |-> <<>>]
        ELSE IF current < stop /\ Timedelta(type, length) = 0
          THEN [outcome |-> "hung", intervals |-> <<>>]
        ELSE [outcome |-> "done",
              intervals |-> WhileCurrentBeforeEnd(<<>>, current, stop,
                                                  Timedelta(type, length))]

\* line 76: the default of OBSERVATIONS_PER_INTERVAL
DefaultObservations == 100

CfgIdle ==
    /\ start_dt = 0
    /\ end_dt = 0
    /\ interval_type = "day"
    /\ interval_length = [num |-> 1, den |-> 1]
    /\ observations_per_interval = DefaultObservations

PlanIdle ==
    /\ intervals = <<>>
    /\ ppc = "idle"

\* one call of _generate_time_intervals
Plan ==
    /\ ppc = "call"
    /\ LET r == GenerateTimeIntervals(start_dt, end_dt, interval_type, interval_length) IN
         /\ ppc' = r.outcome
         /\ intervals' = r.intervals
    /\ UNCHANGED cfgVars

-----------------------------------------------------------------------------
(* Work splitter: EthereumVMOrchestrator._get_vm_time_range *)

\* strftime('%Y-%m-%d-%H:%M'): the text keeps the minute and drops the rest
StrftimeMinute(t) == t - (t % Minute)

\* (end_dt - start_dt) / num_vms: timedelta division rounds to a whole tick
DurationPerVm(start, end, n) == RoundHalfEven(end - start, n)

\* lines 87-90 without the override for the last VM
VmEndNoOverride(start, end, n, vm_index) ==
    start + DurationPerVm(start, end, n) * (vm_index + 1)

\* lines 87-90
VmEnd(start, end, n, vm_index) ==
    IF vm_index = n - 1
      THEN end
      ELSE start + DurationPerVm(start, end, n) * (vm_index + 1)

\* line 86
VmStart(start, end, n, vm_index) == start + DurationPerVm(start, end, n) * vm_index

GetVmTimeRange(start, end, n, vm_index) ==
    <<StrftimeMinute(VmStart(start, end, n, vm_index)),
      StrftimeMinute(VmEnd(start, end, n, vm_index))>>

\* the global ranges START_DATE, END_DATE can give: whole minutes, and a
\* nine-hour mark
SplitTimes == MinuteTimes \cup {9 * Hour}

\* one call of _get_vm_time_range (made from _create_startup_script, once per
\* VM, in the order the thread pool runs them)
AssignRange ==
    /\ \E vm_index \in (0..(num_vms - 1)) \ DOMAIN vm_ranges :
         vm_ranges' = [k \in DOMAIN vm_ranges \cup {vm_index} |->
                         IF k = vm_index
                           THEN GetVmTimeRange(start_date, end_date, num_vms, vm_index)
                           ELSE vm_ranges[k]]
    /\ UNCHANGED <<start_date, end_date, num_vms>>

SplitIdle ==
    /\ start_date = 0
    /\ end_date = 0
    /\ num_vms = 1
    /\ vm_ranges = <<>>

-----------------------------------------------------------------------------
(* Wei amounts *)

\* An amount of wei is written eth * 10^18 + d with a small offset d
\* (|d| <= MaxOffset), so that the thresholds 10^18 and 32 * 10^18 and their
\* neighbours are exact.
Wei(eth, d) == [eth |-> eth, d |-> d]

MaxOffset == 1

WeiGE(a, b) == a.eth > b.eth \/ (a.eth = b.eth /\ a.d >= b.d)

WeiAdd(a, b) == [eth |-> a.eth + b.eth, d |-> a.d + b.d]

\* the amounts a transaction can carry in the model
WeiValues == { Wei(n, k) : n \in {0, 1, 9, 10, 31, 32}, k \in (-MaxOffset)..MaxOffset }
               \ { Wei(0, k) : k \in (-MaxOffset)..(-1) }

\* conversion of an integer to float64: from 10^18 - MaxOffset upwards doubles
\* are at least 128 apart and every n * 10^18 used here is a double, so the
\* offset is rounded away; below that the small amounts are exact
ToFloat64(v) == IF v.eth >= 1 THEN Wei(v.eth, 0) ELSE v

\* 2^63 - 1 = 9.22...e18 and 2^64 - 1 = 18.44...e18, in whole ETH
Int64MaxEth == 9
UInt64MaxEth == 18

\* dtype pandas gives the 'value' column of DataFrame(transactions)
InferDtype(txs) ==
    IF \A k \in 1..Len(txs) : txs[k].value.eth <= Int64MaxEth THEN "int64"
    ELSE IF \A k \in 1..Len(txs) : txs[k].value.eth <= UInt64MaxEth THEN "uint64"
    ELSE "object"

-----------------------------------------------------------------------------
(* The values of a summary, which become the cells of a CSV row *)

\* an integer, a float (the quotient sum / n of a wei amount, read in ETH), the
\* text of datetime.isoformat(), and the NaN read_csv puts in a missing cell
IntCell(n) == [kind |-> "int", v |-> n]
FloatCell(sum, n) == [kind |-> "float", v |-> <<sum, n>>]
Isoformat(t) == [kind |-> "iso", v |-> t]
NaN == [kind |-> "nan", v |-> 0]

\* two cells hold the same value
CellEq(a, b) == a.kind = b.kind /\ a.v = b.v

-----------------------------------------------------------------------------
(* Python dicts, as sequences of <<key, value>> in insertion order *)

Keys(d) == [k \in 1..Len(d) |-> d[k][1]]
Values(d) == [k \in 1..Len(d) |-> d[k][2]]
HasKey(d, key) == \E k \in 1..Len(d) : d[k][1] = key
Get(d, key) == d[CHOOSE k \in 1..Len(d) : d[k][1] = key][2]
\* d[key] = value
DictSet(d, key, value) ==
    IF HasKey(d, key)
      THEN [k \in 1..Len(d) |-> IF d[k][1] = key THEN <<key, value>> ELSE d[k]]
      ELSE Append(d, <<key, value>>)

-----------------------------------------------------------------------------
(* Transactions and their classification *)

\* self.eth2_deposit_contract, line 83
DepositContract == "0x00000000219ab540356cBB839Cbe05303d7705Fa"
DepositLower == "0x00000000219ab540356cbb839cbe05303d7705fa"
DepositUpper == "0X00000000219AB540356CBB839CBE05303D7705FA"
OtherAddress == "0x000000000000000000000000000000000000dEaD"
OtherLower == "0x000000000000000000000000000000000000dead"
\* an absent destination (contract creation): None, falsy
NoAddress == ""

Addresses == {DepositContract, DepositLower, DepositUpper, OtherAddress, NoAddress}

\* str.lower() on the addresses of the model
Lower(a) ==
    CASE a \in {DepositContract, DepositLower, DepositUpper} -> DepositLower
      [] a \in {OtherAddress, OtherLower} -> OtherLower
      [] OTHER -> a

\* the transaction objects of eth_getBlockByNumber(n, True); of their fields
\* the model keeps the ones the classification and the summaries read
Transactions == [to : Addresses, value : WeiValues, gas_price : {1}]

\* _extract_transaction_features
ExtractTransactionFeatures(tx) ==
    [to_address |-> tx.to, value |-> tx.value, gas_price |-> tx.gas_price]

\* min_validator_amount = 32 * 10**18, line 221
MinValidatorEth == 32

\* line 211
IsDepositAddress(to_address) ==
    to_address # NoAddress /\ Lower(to_address) = Lower(DepositContract)

\* _is_validator_transaction: int(value, 16) >= 32 * 10**18 on Python integers
IsValidatorTransaction(tx) ==
    IF ~IsDepositAddress(tx.to)
      THEN FALSE
      ELSE WeiGE(tx.value, Wei(MinValidatorEth, 0))

\* whale_threshold = 1e18, line 400: a float
WhaleThresholdEth == 1

\* df['value'] >= whale_threshold, line 401: a numeric column is compared as
\* float64, an object column element by element as Python integers
IsWhaleValue(dtype, value) ==
    IF dtype = "object"
      THEN WeiGE(value, Wei(WhaleThresholdEth, 0))
      ELSE WeiGE(ToFloat64(value), Wei(WhaleThresholdEth, 0))

WhaleTxs(txs) == SelectSeq(txs, LAMBDA t : IsWhaleValue(InferDtype(txs), t.value))

RECURSIVE SumValue(_)
SumValue(txs) ==
    IF txs = <<>> THEN Wei(0, 0) ELSE WeiAdd(txs[1].value, SumValue(Tail(txs)))

RECURSIVE SumGasPrice(_)
SumGasPrice(txs) ==
    IF txs = <<>> THEN 0 ELSE txs[1].gas_price + SumGasPrice(Tail(txs))

\* summarize_whale_transactions
SummarizeWhaleTransactions(txs) ==
    IF txs = <<>>
      THEN <<>>
      ELSE LET whale_txs == WhaleTxs(txs) IN
           IF whale_txs = <<>>
             THEN << <<"whale_count", IntCell(0)>>,
                     <<"whale_avg_value_eth", IntCell(0)>>,
                     <<"whale_total_value_eth", IntCell(0)>> >>
             ELSE << <<"whale_count", IntCell(Len(whale_txs))>>,
                     <<"whale_avg_value_eth", FloatCell(SumValue(whale_txs), Len(whale_txs))>>,
                     <<"whale_total_value_eth", FloatCell(SumValue(whale_txs), 1)>> >>

\* summarize_validator_transactions
SummarizeValidatorTransactions(vals) ==
    IF vals = <<>>
      THEN << <<"validator_count", IntCell(0)>>,
              <<"validator_total_value_eth", IntCell(0)>>,
              <<"validator_avg_value_eth", IntCell(0)>>,
              <<"validator_avg_gas_price", IntCell(0)>> >>
      ELSE << <<"validator_count", IntCell(Len(vals))>>,
              <<"validator_total_value_eth", FloatCell(SumValue(vals), 1)>>,
              <<"validator_avg_value_eth", FloatCell(SumValue(vals), Len(vals))>>,
              <<"validator_avg_gas_price", FloatCell(Wei(0, SumGasPrice(vals)), Len(vals))>> >>

\* the blocks the provider can return: up to MaxBlockTxs transactions
Blocks == UNION { [1..n -> Transactions] : n \in 0..MaxBlockTxs }

\* lines 303-310: the features of every transaction of the block are added,
\* and added to validators when the transaction is a validator's
FeaturesOf(blk) == [k \in 1..Len(blk) |-> ExtractTransactionFeatures(blk[k])]
ValidatorsOf(blk) ==
    FeaturesOf(SelectSeq(blk, LAMBDA tx : IsValidatorTransaction(tx)))

SumIdle ==
    /\ block = <<>>
    /\ transactions = <<>>
    /\ validators = <<>>
    /\ whale_result = <<>>
    /\ validators_result = <<>>

\* lines 303-310 on one fetched block, then the two summaries of the interval
ClassifyBlock ==
    /\ transactions = <<>>
    /\ block # <<>>
    /\ transactions' = transactions \o FeaturesOf(block)
    /\ validators' = validators \o ValidatorsOf(block)
    /\ UNCHANGED <<block, whale_result, validators_result>>

Summarize ==
    /\ transactions # <<>>
    /\ whale_result = <<>>
    /\ whale_result' = SummarizeWhaleTransactions(transactions)
    /\ validators_result' = SummarizeValidatorTransactions(validators)
    /\ UNCHANGED <<block, transactions, validators>>

-----------------------------------------------------------------------------
(* CSV files *)

NoFile == [exists |-> FALSE, header |-> <<>>, rows |-> <<>>]

\* to_csv in mode 'w' whether the file exists or not: the file is replaced
WriteCsv(file, data) ==
    [exists |-> TRUE, header |-> Keys(data), rows |-> <<Values(data)>>]

\* _append_to_csv: the first row creates the file with the dict's keys as
\* header; later rows are appended without a header, cell by cell
AppendToCsv(file, data) ==
    IF file.exists
      THEN [file EXCEPT !.rows = Append(@, Values(data))]
      ELSE [exists |-> TRUE, header |-> Keys(data), rows |-> <<Values(data)>>]

\* pd.read_csv raises ParserError on a line that holds more cells than the
\* lines before it
ParserError(file) == \E k \in 1..Len(file.rows) : Len(file.rows[k]) > Len(file.header)

\* pd.read_csv: one dict per row, keyed by the header, short rows filled with NaN
ReadCsv(file) ==
    [k \in 1..Len(file.rows) |->
        [j \in 1..Len(file.header) |->
            <<file.header[j],
              IF j <= Len(file.rows[k]) THEN file.rows[k][j] ELSE NaN>>]]

JoinKeys == {"interval_start", "interval_end"}

SameKeys(w, v) ==
    \A key \in JoinKeys : HasKey(w, key) /\ HasKey(v, key) /\ Get(w, key) = Get(v, key)

\* the columns of the right frame that are not join keys
NonKeys(v) == SelectSeq(v, LAMBDA p : p[1] \notin JoinKeys)

RECURSIVE Flatten(_)
Flatten(ss) == IF ss = <<>> THEN <<>> ELSE ss[1] \o Flatten(Tail(ss))

\* pd.merge(whale, validator, how='inner', on=['interval_start', 'interval_end'])
Merge(whale, validator) ==
    Flatten([k \in 1..Len(whale) |->
        LET matches == SelectSeq(validator, LAMBDA v : SameKeys(whale[k], v)) IN
        [m \in 1..Len(matches) |-> whale[k] \o NonKeys(matches[m])]])

\* aggregate_results, when no file fails to parse: the merged rows, or no
\* file when one of the two frames is empty
AggregateResults(whale, validator) ==
    IF whale.exists /\ validator.exists /\ whale.rows # <<>> /\ validator.rows # <<>>
      THEN [exists |-> TRUE, rows |-> Merge(ReadCsv(whale), ReadCsv(validator))]
      ELSE [exists |-> FALSE, rows |-> <<>>]

NoAggregate == [exists |-> FALSE, rows |-> <<>>]

\* whether the text of end_dt.isoformat() occurs in the last line of the
\* file: it does when a cell is the isoformat of a time within the same second
ExpectedEndInLastLine(file, expected_end) ==
    LET last_line == file.rows[Len(file.rows)] IN
    \E j \in 1..Len(last_line) :
        /\ last_line[j].kind = "iso"
        /\ last_line[j].v - (last_line[j].v % Second) = expected_end

\* check_completed: lines 441-445 return True on both branches
CheckCompleted(file, expected_end) ==
    IF ExpectedEndInLastLine(file, expected_end) THEN TRUE ELSE TRUE

-----------------------------------------------------------------------------
(* EthereumExtractor.run *)

Status(status, done, total, msg) ==
    [status |-> status, done |-> done, total |-> total, msg |-> msg]

\* int(start_time.timestamp()): whole seconds
Timestamp(dt) == dt \div Second

\* the blocks the provider returns to a run
RunBlocks ==
    { <<>>,
      <<[to |-> OtherAddress, value |-> Wei(0, 1), gas_price |-> 1]>>,
      <<[to |-> DepositLower, value |-> Wei(32, 0), gas_price |-> 1]>> }

\* the chains a run reads: short ones, every block as old as can be or as
\* young as can be
RunChains ==
    { c \in Chains : HeadOf(c) <= MaxRunHead /\ \A k \in 1..Len(c) : c[k] \in {0, MaxTs} }

\* the configurations of a run
RunStarts == {0, Minute}
RunEnds == {0, Hour, Hour + Minute, 2 * Hour}
RunTypes == {"hour", "week"}
RunObservations == {1, DefaultObservations}
RunLengths == { [num |-> 1, den |-> 1], [num |-> 1, den |-> 2 * Day + 1] }

\* the call of the locator for a bound of the interval
CallLocator(dt) ==
    /\ target_timestamp' = Timestamp(dt)
    /\ lpc' = "call"
    /\ UNCHANGED <<chain, latest_block_num, low, high, closest_block, probed>>

\* line 377 with enumerate counting from 1
CompletedIntervalsFromOne(index) == index + 2

\* line 377: completed_intervals = i + 1
CompletedIntervals(index) == index + 1

\* the except clause of run(): lines 389-392
Except(error) ==
    /\ status_file' = Status("FAILED", 0, 0, error)
    /\ raised' = error
    /\ pc' = "raised"

\* line 332: the first status of run()
RunBegin ==
    /\ pc = "start"
    /\ status_file' = Status("RUNNING", 0, 0, "")
    /\ pc' = "plan"
    /\ UNCHANGED <<locVars, cfgVars, planVars, sumVars, i, start_block, end_block,
                   block_num, fetched, whale_file, validator_file, aggregated_results,
                   raised>>

\* lines 335-355: the plan and the file names; with no interval the loop is
\* skipped and line 382 reads validator_file, which was never bound
RunStart ==
    /\ pc = "plan"
    /\ LET r == GenerateTimeIntervals(start_dt, end_dt, interval_type, interval_length) IN
         /\ ppc' = r.outcome
         /\ intervals' = r.intervals
         /\ CASE r.outcome = "raised" ->
                   /\ Except("ValueError")
                   /\ UNCHANGED <<i, locVars>>
              [] r.outcome = "hung" ->
                   /\ pc' = "hung"
                   /\ UNCHANGED <<i, raised, status_file, locVars>>
              [] r.outcome = "done" /\ r.intervals = <<>> ->
                   /\ Except("UnboundLocalError")
                   /\ UNCHANGED <<i, locVars>>
              [] OTHER ->
                   /\ i' = 0
                   /\ pc' = "resolve_start"
                   /\ CallLocator(r.intervals[1][1])
                   /\ UNCHANGED <<raised, status_file>>
    /\ UNCHANGED <<cfgVars, sumVars, start_block, end_block, block_num, fetched,
                   whale_file, validator_file, aggregated_results>>

\* line 282, testing end_block alone
UnresolvedEndOnly(first, last) == Falsy(last)

\* line 282: not start_block or not end_block
Unresolved(first, last) == Falsy(first) \/ Falsy(last)

\* line 279 returns; line 280 calls the locator for the end of the interval
ResolveStart ==
    /\ pc = "resolve_start"
    /\ lpc = "done"
    /\ start_block' = closest_block
    /\ CallLocator(intervals[i + 1][2])
    /\ pc' = "resolve_end"
    /\ UNCHANGED <<cfgVars, planVars, sumVars, i, end_block, block_num, fetched,
                   whale_file, validator_file, aggregated_results, status_file, raised>>

\* lines 280-294: an unresolved bound returns two empty lists; otherwise the
\* blocks start_block..end_block are to be fetched
ResolveEnd ==
    /\ pc = "resolve_end"
    /\ lpc = "done"
    /\ end_block' = closest_block
    /\ lpc' = "idle"
    /\ transactions' = <<>>
    /\ validators' = <<>>
    /\ fetched' = <<>>
    /\ IF Unresolved(start_block, closest_block)
         THEN /\ pc' = "summarize"
              /\ UNCHANGED block_num
         ELSE IF start_block > closest_block
           \* range(start_block, end_block + 1) is empty
           THEN /\ pc' = "summarize"
                /\ UNCHANGED block_num
           ELSE /\ pc' = "fetch"
                /\ block_num' = start_block
    /\ UNCHANGED <<chain, target_timestamp, latest_block_num, low, high,
                   closest_block, probed>>
    /\ UNCHANGED <<cfgVars, planVars, block, whale_result, validators_result, i,
                   start_block, whale_file, validator_file, aggregated_results,
                   status_file, raised>>

\* lines 296-315: one full-block fetch; a failed fetch is skipped
FetchBlock ==
    /\ pc = "fetch"
    /\ \E answered \in BOOLEAN, blk \in RunBlocks :
         /\ fetched' = Append(fetched, <<block_num, answered>>)
         /\ IF answered
              THEN /\ block' = blk
                   /\ transactions' = transactions \o FeaturesOf(blk)
                   /\ validators' = validators \o ValidatorsOf(blk)
              ELSE /\ block' = <<>>
                   /\ UNCHANGED <<transactions, validators>>
    /\ IF block_num < end_block
         THEN /\ block_num' = block_num + 1
              /\ pc' = "fetch"
         ELSE /\ pc' = "summarize"
              /\ UNCHANGED block_num
    /\ UNCHANGED <<locVars, cfgVars, planVars, whale_result, validators_result, i,
                   start_block, end_block, whale_file, validator_file,
                   aggregated_results, status_file, raised>>

\* the dict of an interval: the summary, then the two keys of the interval
WithInterval(summary, interval) ==
    DictSet(DictSet(summary, "interval_start", Isoformat(interval[1])),
            "interval_end", Isoformat(interval[2]))

\* lines 357-378: the two summaries, their rows, the progress; then the next
\* interval, or the end of the loop
SummarizeInterval ==
    /\ pc = "summarize"
    /\ LET whale == WithInterval(SummarizeWhaleTransactions(transactions), intervals[i + 1])
           vals == WithInterval(SummarizeValidatorTransactions(validators), intervals[i + 1])
       IN  /\ whale_result' = whale
           /\ validators_result' = vals
           /\ whale_file' = IF whale # <<>> THEN AppendToCsv(whale_file, whale) ELSE whale_file
           /\ validator_file' =
                IF vals # <<>> THEN AppendToCsv(validator_file, vals) ELSE validator_file
    /\ status_file' = Status("RUNNING", CompletedIntervals(i), Len(intervals), "")
    /\ IF i + 1 < Len(intervals)
         THEN /\ i' = i + 1
              /\ pc' = "resolve_start"
              /\ CallLocator(intervals[i + 2][1])
         ELSE /\ pc' = "final"
              /\ UNCHANGED <<i, locVars>>
    /\ UNCHANGED <<cfgVars, planVars, block, transactions, validators, start_block,
                   end_block, block_num, fetched, aggregated_results, raised>>

\* lines 381-392: the completion check, the merge and the final status
Final ==
    /\ pc = "final"
    /\ IF CheckCompleted(validator_file, end_dt)
         THEN IF ParserError(whale_file) \/ ParserError(validator_file)
                THEN /\ Except("ParserError")
                     /\ UNCHANGED aggregated_results
                ELSE /\ aggregated_results' = AggregateResults(whale_file, validator_file)
                     /\ status_file' = Status("COMPLETED", CompletedIntervals(i), Len(intervals), "")
                     /\ pc' = "done"
                     /\ UNCHANGED raised
         ELSE /\ status_file' = Status("FAILED", 0, 0, "Incomplete extraction")
              /\ pc' = "done"
              /\ UNCHANGED <<aggregated_results, raised>>
    /\ UNCHANGED <<locVars, cfgVars, planVars, sumVars, i, start_block, end_block,
                   block_num, fetched, whale_file, validator_file>>

RunIdle ==
    /\ pc = "idle"
    /\ i = 0
    /\ start_block = None
    /\ end_block = None
    /\ block_num = None
    /\ fetched = <<>>
    /\ whale_file = NoFile
    /\ validator_file = NoFile
    /\ aggregated_results = NoAggregate
    /\ status_file = Status("", 0, 0, "")
    /\ raised = ""

-----------------------------------------------------------------------------
(* EthereumVMOrchestrator._check_vm_status, _download_data *)

\* ls data/*.csv | wc -l on the VM
FileCount ==
    (IF whale_file.exists THEN 1 ELSE 0) + (IF validator_file.exists THEN 1 ELSE 0)
      + (IF aggregated_results.exists THEN 1 ELSE 0)

\* _check_vm_status, given the answers of gcloud describe and gcloud ssh
VmStatus(describe, ssh_ok, file_count) ==
    IF describe = "error" THEN "NOT_FOUND"
    ELSE IF describe # "RUNNING" THEN "VM_TERMINATED"
    ELSE IF ssh_ok
      THEN IF file_count > 0 THEN "COMPLETED" ELSE "RUNNING"
      ELSE "RUNNING"

\* lines 361-366 of cleanup, for the VM the extractor runs on
CheckVmStatus ==
    /\ results = ""
    /\ pc # "idle"
    /\ \E describe \in {"error", "TERMINATED", "RUNNING"}, ssh_ok \in BOOLEAN :
         results' = VmStatus(describe, ssh_ok, FileCount)
    /\ status_at_check' = status_file.status
    /\ UNCHANGED downloaded

\* lines 374-382 of cleanup: the data directory of a completed VM is copied
DownloadData ==
    /\ results = "COMPLETED"
    /\ downloaded = <<>>
    /\ \E ok \in BOOLEAN :
         downloaded' = IF ok
                         THEN <<"SUCCESS", whale_file, validator_file, aggregated_results>>
                         ELSE <<"FAILED">>
    /\ UNCHANGED <<results, status_at_check>>

OrchIdle ==
    /\ results = ""
    /\ status_at_check = ""
    /\ downloaded = <<>>

-----------------------------------------------------------------------------
(* Configuration loading: _load_config of the extractor and of the orchestrator *)

\* os.getenv of a key that is not set
Unset == "<unset>"

\* what a key of the environment can hold
EnvValues == {Unset, "", "value"}

\* extractor.py lines 61-65
ExtractorRequired == <<"ETHEREUM_PROVIDER_URL", "INTERVAL_START", "INTERVAL_END">>

\* vm_orchestrator.py lines 43-50
OrchestratorRequired ==
    <<"GCP_PROJECT_ID", "GITHUB_REPO", "START_DATE", "END_DATE", "NUM_VMS",
      "ETHEREUM_PROVIDER_URLS">>

Required(who) == IF who = "extractor" THEN ExtractorRequired ELSE OrchestratorRequired

KeySet(keys) == { keys[k] : k \in 1..Len(keys) }

\* not v, for v a string or None
NotValue(v) == v = Unset \/ v = ""

\* [k for k, v in required.items() if not v]
MissingKeys(e, required) == SelectSeq(required, LAMBDA k : NotValue(e[k]))

NoError == [raised |-> "", named |-> <<>>]

\* extractor.py lines 67-69: ValueError(f"Missing required config: {missing}")
ExtractorLoadConfig(e) ==
    LET missing == MissingKeys(e, ExtractorRequired) IN
    IF missing # <<>> THEN [raised |-> "ValueError", named |-> missing] ELSE NoError

\* vm_orchestrator.py lines 52-53: ValueError(f"Missing required configs")
OrchestratorLoadConfig(e) ==
    IF MissingKeys(e, OrchestratorRequired) # <<>>
      THEN [raised |-> "ValueError", named |-> <<>>]
      ELSE NoError

\* __init__ calls _load_config first; an exception leaves the constructor
LoadConfig ==
    /\ cpc = "call"
    /\ config_error' = IF loader = "extractor" THEN ExtractorLoadConfig(env)
                       ELSE OrchestratorLoadConfig(env)
    /\ cpc' = IF config_error'.raised # "" THEN "raised" ELSE "loaded"
    /\ UNCHANGED <<loader, env>>

\* the rest of __init__ (the data directory and the status file of the
\* extractor), after which the object can be put to work
FinishInit ==
    /\ cpc = "loaded"
    /\ cpc' = "constructed"
    /\ UNCHANGED <<loader, env, config_error>>

EnvIdle ==
    /\ loader = "extractor"
    /\ env = [k \in KeySet(ExtractorRequired) |-> "value"]
    /\ config_error = NoError
    /\ cpc = "idle"


-----------------------------------------------------------------------------
(* EthereumVMOrchestrator.setup and cleanup, over the VMs of the project *)

\* the VM names a project can hold: eth-extractor-001 .. eth-extractor-00<MaxFleet>
MaxFleet == 2

\* _get_vm_names: f"eth-extractor-{i+1:03d}"
VmName(n) == <<"eth-extractor-", n>>

RECURSIVE Ascending(_)
\* the numbers of a set, in increasing order
Ascending(S) ==
    IF S = {} THEN <<>>
    ELSE LET least == CHOOSE x \in S : \A y \in S : x <= y IN
         <<least>> \o Ascending(S \ {least})

\* _list_existing_vms: the tagged VMs whose name starts with eth-extractor-,
\* or the empty list when gcloud fails or its output cannot be split
ListExistingVms(vms, gcloud_ok) ==
    IF gcloud_ok THEN [k \in 1..Len(Ascending(vms)) |-> VmName(Ascending(vms)[k])]
    ELSE <<>>

\* the keys "status" and "vms" of the dict setup() returns
StatusKey == <<"status">>
VmsKey == <<"vms">>

Event(kind, vm, ok) == [kind |-> kind, vm |-> vm, ok |-> ok]

\* lines 311-318 of setup: the existence check, and the dict returned when
\* VMs are found
SetupList ==
    /\ fpc = "start"
    /\ command' = "setup"
    /\ \E gcloud_ok \in BOOLEAN :
         /\ existing_vms' = ListExistingVms(cloud, gcloud_ok)
         /\ events' = Append(events, Event("list", <<>>, gcloud_ok))
    /\ IF existing_vms' # <<>>
         THEN /\ setup_result' = <<<<StatusKey, "existing_vms_found">>, <<VmsKey, existing_vms'>>>>
              /\ fpc' = "returned"
         ELSE /\ setup_result' = <<>>
              /\ fpc' = "create"
    /\ UNCHANGED <<cloud, fleet_size, cleanup_results, completed_vms, vm_k, local_dirs,
                   aggregated_from, deploy_outcome>>

\* the values of a dict that equal the given status
CountStatus(d, status) ==
    Cardinality({ k \in 1..Len(d) : d[k][1] \notin {StatusKey, VmsKey} /\ d[k][2] = status })

\* lines 321-345 of setup: _create_vm for every name, in the order the futures
\* complete; gcloud refuses a name that exists; no VM created raises
SetupCreate ==
    /\ fpc = "create"
    /\ \E n \in 1..fleet_size, ok \in BOOLEAN :
         /\ ~HasKey(setup_result, VmName(n))
         /\ n \in cloud => ~ok
         /\ cloud' = IF ok THEN cloud \cup {n} ELSE cloud
         /\ setup_result' = DictSet(setup_result, VmName(n), IF ok THEN "CREATED" ELSE "FAILED")
         /\ events' = Append(events, Event("create", VmName(n), ok))
    /\ fpc' = IF Len(setup_result') < fleet_size THEN "create"
              ELSE IF CountStatus(setup_result', "CREATED") = 0 THEN "raised"
              ELSE "returned"
    /\ UNCHANGED <<command, fleet_size, existing_vms, cleanup_results, completed_vms, vm_k,
                   local_dirs, aggregated_from, deploy_outcome>>

\* main.py line 67: the signal the command layer takes for an existing deployment
Recognised(d) == HasKey(d, StatusKey) /\ Get(d, StatusKey) = "existing_deployment"

\* main.py lines 64-89: what deploy_command makes of the dict it gets back
DeployCommand ==
    /\ fpc = "returned"
    /\ command = "setup"
    /\ deploy_outcome' =
         IF Recognised(setup_result) THEN "existing_deployment"
         ELSE IF CountStatus(setup_result, "DEPLOYED") > 0 THEN "deployed"
         ELSE "no_vms_deployed"
    /\ fpc' = "done"
    /\ UNCHANGED <<cloud, command, fleet_size, existing_vms, setup_result, cleanup_results,
                   completed_vms, vm_k, events, local_dirs, aggregated_from>>

\* the keys of the dict cleanup returns: vm_name, f"{vm_name}_download",
\* f"{vm_name}_delete"
ResultKey(vm, suffix) == <<vm, suffix>>

\* lines 350-355 of cleanup
CleanupList ==
    /\ fpc = "start"
    /\ command' = "cleanup"
    /\ \E gcloud_ok \in BOOLEAN :
         /\ existing_vms' = ListExistingVms(cloud, gcloud_ok)
         /\ events' = Append(events, Event("list", <<>>, gcloud_ok))
    /\ fpc' = IF existing_vms' = <<>> THEN "done" ELSE "check"
    /\ vm_k' = 1
    /\ UNCHANGED <<cloud, fleet_size, setup_result, cleanup_results, completed_vms,
                   local_dirs, aggregated_from, deploy_outcome>>

\* lines 361-371 of cleanup: the status of one VM; an exception in
\* _check_vm_status gives ERROR
CleanupCheck ==
    /\ fpc = "check"
    /\ LET vm == existing_vms[vm_k] IN
       \E describe \in {"error", "TERMINATED", "RUNNING"}, ssh_ok \in BOOLEAN,
          file_count \in {0, 2}, exception \in BOOLEAN :
         LET status == IF exception THEN "ERROR" ELSE VmStatus(describe, ssh_ok, file_count) IN
         /\ cleanup_results' = DictSet(cleanup_results, ResultKey(vm, ""), status)
         /\ completed_vms' = IF status = "COMPLETED" THEN Append(completed_vms, vm)
                             ELSE completed_vms
    /\ IF vm_k < Len(existing_vms)
         THEN /\ vm_k' = vm_k + 1
              /\ fpc' = "check"
         ELSE /\ vm_k' = 1
              /\ fpc' = IF completed_vms' # <<>> THEN "download" ELSE "delete"
    /\ UNCHANGED <<cloud, command, fleet_size, existing_vms, setup_result, events,
                   local_dirs, aggregated_from, deploy_outcome>>

\* lines 374-382 of cleanup: the data directory of one completed VM is copied
CleanupDownload ==
    /\ fpc = "download"
    /\ LET vm == completed_vms[vm_k] IN
       \E ok \in BOOLEAN :
         /\ cleanup_results' = DictSet(cleanup_results, ResultKey(vm, "_download"),
                                       IF ok THEN "SUCCESS" ELSE "FAILED")
         /\ local_dirs' = IF ok THEN local_dirs \cup {vm} ELSE local_dirs
         /\ events' = Append(events, Event("download", vm, ok))
    /\ IF vm_k < Len(completed_vms)
         THEN /\ vm_k' = vm_k + 1
              /\ fpc' = "download"
         ELSE /\ vm_k' = 1
              /\ fpc' = "delete"
    /\ UNCHANGED <<cloud, command, fleet_size, existing_vms, setup_result, completed_vms,
                   aggregated_from, deploy_outcome>>

\* lines 385-392 of cleanup: every listed VM is deleted, whatever its status
CleanupDelete ==
    /\ fpc = "delete"
    /\ LET vm == existing_vms[vm_k] IN
       \E ok \in BOOLEAN :
         /\ cleanup_results' = DictSet(cleanup_results, ResultKey(vm, "_delete"),
                                       IF ok THEN "SUCCESS" ELSE "FAILED")
         /\ cloud' = IF ok THEN cloud \ {vm[2]} ELSE cloud
         /\ events' = Append(events, Event("delete", vm, ok))
    /\ IF vm_k < Len(existing_vms)
         THEN /\ vm_k' = vm_k + 1
              /\ fpc' = "delete"
         ELSE /\ vm_k' = 1
              /\ fpc' = "aggregate"
    /\ UNCHANGED <<command, fleet_size, existing_vms, setup_result, completed_vms,
                   local_dirs, aggregated_from, deploy_outcome>>

\* lines 395-396 of cleanup
SuccessfulDownloads(completed, d) ==
    SelectSeq(completed, LAMBDA vm : HasKey(d, ResultKey(vm, "_download"))
                                     /\ Get(d, ResultKey(vm, "_download")) = "SUCCESS")

\* lines 398-403 of cleanup: _aggregate_data reads every VM directory of the
\* data directory
CleanupAggregate ==
    /\ fpc = "aggregate"
    /\ IF SuccessfulDownloads(completed_vms, cleanup_results) # <<>>
         THEN /\ aggregated_from' = <<local_dirs>>
              /\ events' = Append(events, Event("merge", <<>>, TRUE))
         ELSE UNCHANGED <<aggregated_from, events>>
    /\ fpc' = "done"
    /\ UNCHANGED <<cloud, command, fleet_size, existing_vms, setup_result, cleanup_results,
                   completed_vms, vm_k, local_dirs, deploy_outcome>>

FleetIdle ==
    /\ cloud = {}
    /\ command = ""
    /\ fleet_size = 1
    /\ fpc = "idle"
    /\ existing_vms = <<>>
    /\ setup_result = <<>>
    /\ cleanup_results = <<>>
    /\ completed_vms = <<>>
    /\ vm_k = 1
    /\ events = <<>>
    /\ local_dirs = {}
    /\ aggregated_from = <<>>
    /\ deploy_outcome = ""

-----------------------------------------------------------------------------
(* The merge steps: EthereumExtractor.aggregate_results over the data       *)
(* directory of a VM, EthereumVMOrchestrator._aggregate_data over the local *)
(* data directory                                                           *)

\* file names, as the lists of the pieces the code tests them for
WhaleFileName(stamp) == <<stamp, "_", "whale", "_transactions", ".csv">>
ValidatorFileName(stamp) == <<stamp, "_", "validator", "_transactions", ".csv">>
AggregatedResultsName == <<"aggregated_results", ".csv">>
ValidatorsCsv == <<"validators", ".csv">>
TransactionsCsv == <<"transactions", ".csv">>

\* str.endswith
EndsWith(name, suffix) ==
    /\ Len(suffix) <= Len(name)
    /\ SubSeq(name, Len(name) - Len(suffix) + 1, Len(name)) = suffix

\* the operator in, on strings
Contains(name, part) ==
    \E p \in 1..(Len(name) - Len(part) + 1) : SubSeq(name, p, p + Len(part) - 1) = part

\* a DataFrame: its columns, and its rows as lists of cells under the columns
EmptyFrame == [columns |-> <<>>, rows |-> <<>>]

\* pd.read_csv of a file without a line longer than the header: short rows
\* are filled with NaN
ReadFrame(file) ==
    [columns |-> file.header,
     rows |-> [k \in 1..Len(file.rows) |->
                 [j \in 1..Len(file.header) |->
                    IF j <= Len(file.rows[k]) THEN file.rows[k][j] ELSE NaN]]]

ColumnIndex(frame, column) == CHOOSE j \in 1..Len(frame.columns) : frame.columns[j] = column

HasColumn(frame, column) == \E j \in 1..Len(frame.columns) : frame.columns[j] = column

Cell(frame, row, column) ==
    IF HasColumn(frame, column) THEN row[ColumnIndex(frame, column)] ELSE NaN

\* the columns of b that a lacks, in b's order
NewColumns(a, b) == SelectSeq(b.columns, LAMBDA c : ~HasColumn(a, c))

\* pd.concat([a, b], ignore_index=True): the union of the columns, the rows
\* of a then those of b, NaN where a frame lacks a column
Concat2(a, b) ==
    LET columns == a.columns \o NewColumns(a, b)
        Relaid(frame) == [k \in 1..Len(frame.rows) |->
                            [j \in 1..Len(columns) |-> Cell(frame, frame.rows[k], columns[j])]]
    IN  [columns |-> columns, rows |-> Relaid(a) \o Relaid(b)]

RECURSIVE ConcatFrames(_)
\* pd.concat of a list of frames
ConcatFrames(frames) ==
    IF frames = <<>> THEN EmptyFrame
    ELSE Concat2(frames[1], ConcatFrames(Tail(frames)))

JoinColumns == <<"interval_start", "interval_end">>

\* pd.merge(whale, validator, how='inner', on=['interval_start', 'interval_end'])
MergeFrames(whale, validator) ==
    LET others == SelectSeq(validator.columns, LAMBDA c : c \notin JoinKeys)
        SameKey(w, v) == \A c \in JoinKeys : CellEq(Cell(whale, w, c), Cell(validator, v, c))
    IN  [columns |-> whale.columns \o others,
         rows |-> Flatten([k \in 1..Len(whale.rows) |->
                    LET matches == SelectSeq(validator.rows,
                                             LAMBDA v : SameKey(whale.rows[k], v)) IN
                    [m \in 1..Len(matches) |->
                       whale.rows[k] \o [j \in 1..Len(others) |->
                                           Cell(validator, matches[m], others[j])]]])]

\* to_csv with mode 'a' on a file that exists: the rows are added to it
ToCsvAppend(old, frame) ==
    IF old.exists THEN [old EXCEPT !.rows = @ \o frame.rows]
    ELSE [exists |-> TRUE, header |-> frame.columns, rows |-> frame.rows]

\* DataFrame.to_csv(path, index=False): the file is written anew
ToCsv(old, frame) == [exists |-> TRUE, header |-> frame.columns, rows |-> frame.rows]

\* a directory: the list of <<name, file>> of its entries, as os.listdir gives them
FileOf(dir, name) == IF HasKey(dir, name) THEN Get(dir, name) ELSE NoFile

\* the files of a directory whose names pass a test, in listing order
FilesWhere(dir, Test(_)) ==
    LET chosen == SelectSeq(dir, LAMBDA e : Test(e[1])) IN
    [k \in 1..Len(chosen) |-> chosen[k][2]]

FramesOf(files) == [k \in 1..Len(files) |-> ReadFrame(files[k])]

\* aggregate_results, lines 448-478: the frames of the validator files and of
\* the whale files are concatenated and joined; pd.read_csv raising leaves
\* the directory as it is
AggregateResultsDir(dir) ==
    LET validator_files == FilesWhere(dir, LAMBDA n :
                              EndsWith(n, <<"validator", "_transactions", ".csv">>))
        whale_files == FilesWhere(dir, LAMBDA n :
                          ~EndsWith(n, <<"validator", "_transactions", ".csv">>)
                          /\ EndsWith(n, <<"whale", "_transactions", ".csv">>))
        validator_results == ConcatFrames(FramesOf(validator_files))
        whale_results == ConcatFrames(FramesOf(whale_files))
        read == validator_files \o whale_files
    IN  IF \E k \in 1..Len(read) : ParserError(read[k])
          THEN [raised |-> "ParserError", dir |-> dir]
        ELSE IF whale_results.rows # <<>> /\ validator_results.rows # <<>>
          THEN [raised |-> "",
                dir |-> DictSet(dir, AggregatedResultsName,
                                ToCsv(FileOf(dir, AggregatedResultsName),
                                      MergeFrames(whale_results, validator_results)))]
        ELSE [raised |-> "", dir |-> dir]

\* _clean_csv, lines 285-307: the cells beyond the header's are cut off
CleanCsv(file) ==
    [file EXCEPT !.rows = [k \in 1..Len(file.rows) |->
        IF Len(file.rows[k]) > Len(file.header)
          THEN SubSeq(file.rows[k], 1, Len(file.header))
          ELSE file.rows[k]]]

CleanDir(dir) == [k \in 1..Len(dir) |-> <<dir[k][1], CleanCsv(dir[k][2])>>]

AggregatedDir == <<"aggregated">>

\* _aggregate_data, lines 249-283, on the local data directory: a list of
\* <<directory name, directory>>; every csv file of every VM directory is
\* cleaned, the validator files are concatenated into aggregated/validators.csv
\* and the other *_transactions.csv files into aggregated/transactions.csv
AggregateData(data) ==
    LET vm_dirs == SelectSeq(data, LAMBDA d : d[1] # AggregatedDir)
        all_files == Flatten([k \in 1..Len(vm_dirs) |->
                        SelectSeq(vm_dirs[k][2], LAMBDA e : EndsWith(e[1], <<".csv">>))])
        IsValidatorFile(n) == Contains(n, <<"_", "validator", "_transactions", ".csv">>)
        IsTransactionFile(n) == Contains(n, <<"_transactions", ".csv">>) /\ ~IsValidatorFile(n)
        cleaned == [k \in 1..Len(data) |->
                      IF data[k][1] # AggregatedDir
                        THEN <<data[k][1], CleanDir(data[k][2])>>
                        ELSE data[k]]
        validator_files == FilesWhere(CleanDir(all_files), IsValidatorFile)
        transaction_files == FilesWhere(CleanDir(all_files), IsTransactionFile)
        old == IF HasKey(data, AggregatedDir) THEN Get(data, AggregatedDir) ELSE <<>>
        with_validators ==
            IF validator_files # <<>>
              THEN DictSet(old, ValidatorsCsv,
                           ToCsv(FileOf(old, ValidatorsCsv),
                                 ConcatFrames(FramesOf(validator_files))))
              ELSE old
        with_transactions ==
            IF transaction_files # <<>>
              THEN DictSet(with_validators, TransactionsCsv,
                           ToCsv(FileOf(with_validators, TransactionsCsv),
                                 ConcatFrames(FramesOf(transaction_files))))
              ELSE with_validators
    IN  IF all_files = <<>> THEN data
        ELSE DictSet(cleaned, AggregatedDir, with_transactions)

\* how many times a merge step is run on the same files
MergeRuns == 2

\* the intervals a worker writes before its files are merged: 1..MaxMergeIntervals
MaxMergeIntervals == 2

\* the blocks of an interval: none with a transaction, or one deposit
MergeBlocks ==
    { <<>>, <<[to |-> DepositLower, value |-> Wei(32, 0), gas_price |-> 1]>> }

\* the intervals of a worker, an hour each, the workers' ranges side by side
WorkerIntervals(vm, n) ==
    [k \in 1..n |-> <<(MaxMergeIntervals * (vm - 1) + k - 1) * Hour,
                      (MaxMergeIntervals * (vm - 1) + k) * Hour>>]

RECURSIVE WriteIntervals(_, _, _)
\* the files run() leaves after the intervals ivs, given the block of each:
\* lines 357-371 for each interval in turn
WriteIntervals(files, ivs, blks) ==
    IF ivs = <<>> THEN files
    ELSE LET whale == WithInterval(SummarizeWhaleTransactions(FeaturesOf(blks[1])), ivs[1])
             vals == WithInterval(SummarizeValidatorTransactions(ValidatorsOf(blks[1])), ivs[1])
         IN  WriteIntervals(<<AppendToCsv(files[1], whale), AppendToCsv(files[2], vals)>>,
                            Tail(ivs), Tail(blks))

\* lines 340-342: the files are named after the start of the first interval
WorkerDir(vm, blks) ==
    LET ivs == WorkerIntervals(vm, Len(blks))
        files == WriteIntervals(<<NoFile, NoFile>>, ivs, blks)
        stamp == ToString(ivs[1][1])
    IN  <<<<WhaleFileName(stamp), files[1]>>, <<ValidatorFileName(stamp), files[2]>>>>

\* the blocks of the intervals of a worker; none when the worker left no data
WorkerChoices == UNION { [1..n -> MergeBlocks] : n \in 0..MaxMergeIntervals }

\* the local data directory after the download of the VMs that left data:
\* each VM directory holds the worker's files and what its own merge wrote
DataDirOf(f) ==
    Flatten([vm \in 1..MaxFleet |->
        IF f[vm] = <<>> THEN <<>>
        ELSE <<<<VmName(vm), AggregateResultsDir(WorkerDir(vm, f[vm])).dir>>>>])

Merged(who) == SelectSeq(merge_log, LAMBDA m : m.who = who)

\* one run of aggregate_results on the data directory of the extractor; the
\* log keeps the runs of each step in their order, the extractor's first
AggregateResultsStep ==
    /\ Len(Merged("extractor")) < MergeRuns
    /\ LET r == AggregateResultsDir(vm_data_dir) IN
         /\ vm_data_dir' = r.dir
         /\ merge_log' = Append(Merged("extractor"),
                [who |-> "extractor", raised |-> r.raised, after |-> r.dir,
                 output |-> <<<<AggregatedResultsName, FileOf(r.dir, AggregatedResultsName)>>>>])
                          \o Merged("orchestrator")
    /\ UNCHANGED <<data_dir, downloaded_data>>

\* one run of _aggregate_data on the local data directory
AggregateDataStep ==
    /\ Len(Merged("orchestrator")) < MergeRuns
    /\ data_dir' = AggregateData(data_dir)
    /\ merge_log' = Append(merge_log,
           [who |-> "orchestrator", raised |-> "", after |-> data_dir',
            output |-> IF HasKey(data_dir', AggregatedDir) THEN Get(data_dir', AggregatedDir)
                       ELSE <<>>])
    /\ UNCHANGED <<vm_data_dir, downloaded_data>>

MergeIdle ==
    /\ vm_data_dir = <<>>
    /\ data_dir = <<>>
    /\ downloaded_data = <<>>
    /\ merge_log = <<>>

-----------------------------------------------------------------------------
(* The start of the workers: EthereumVMOrchestrator._create_startup_script   *)
(* and _create_vm, then EthereumExtractor.__init__ and the planner on the VM *)

\* the workers of a run whose start is followed: NUM_VMS lies in 1..MaxWorkers
MaxWorkers == 3

\* f with f[k] = v added
Extend(f, k, v) == [x \in DOMAIN f \cup {k} |-> IF x = k THEN v ELSE f[x]]

\* line 97: provider_urls[vm_index % len(provider_urls)]
ProviderUrl(urls, vm_index) == urls[(vm_index % Len(urls)) + 1]

\* lines 99-106: the lines of the .env of VM vm_index, as <<key, value>>
DotEnvVars(urls, start, end, n, config, vm_index) ==
    << <<"ETHEREUM_PROVIDER_URL", ProviderUrl(urls, vm_index)>>,
       <<"START_DATE", GetVmTimeRange(start, end, n, vm_index)[1]>>,
       <<"END_DATE", GetVmTimeRange(start, end, n, vm_index)[2]>>,
       <<"OBSERVATIONS_PER_INTERVAL", config.observations>>,
       <<"DELAY_SECONDS", config.delay>>,
       <<"INTERVAL_SPAN_TYPE", config.interval_type>>,
       <<"INTERVAL_SPAN_LENGTH", config.interval_length>>,
       <<"DATA_DIRECTORY", "data">> >>

\* os.getenv of the required keys after load_dotenv of a .env: the URL as
\* written, a date as a text that is not empty
Environ(file) ==
    [k \in KeySet(ExtractorRequired) |->
        IF ~HasKey(file, k) THEN Unset
        ELSE IF k = "ETHEREUM_PROVIDER_URL" THEN Get(file, k)
        ELSE "value"]

\* _create_vm, lines 132-161: the startup script is written for the VM and
\* gcloud creates the VM or fails
CreateVm ==
    /\ \E vm_index \in (0..(num_vms - 1)) \ DOMAIN dot_env :
         /\ dot_env' = Extend(dot_env, vm_index,
                              DotEnvVars(provider_urls, start_date, end_date, num_vms,
                                         vm_config, vm_index))
         /\ vm_ranges' = Extend(vm_ranges, vm_index,
                                GetVmTimeRange(start_date, end_date, num_vms, vm_index))
         /\ \E success \in BOOLEAN : vm_created' = Extend(vm_created, vm_index, success)
    /\ UNCHANGED <<start_date, end_date, num_vms, provider_urls, vm_config,
                   worker_error, worker_intervals>>

\* the extractor started on a created VM: __init__ loads the .env of the
\* startup script (extractor.py lines 53-84), and run() plans the intervals of
\* INTERVAL_START .. INTERVAL_END (line 336) when the configuration loaded
WorkerStart ==
    /\ \E vm_index \in { v \in DOMAIN vm_created : vm_created[v] } \ DOMAIN worker_error :
         LET file == dot_env[vm_index]
             error == ExtractorLoadConfig(Environ(file))
         IN  /\ worker_error' = Extend(worker_error, vm_index, error)
             /\ IF error.raised = ""
                  THEN worker_intervals' =
                         Extend(worker_intervals, vm_index,
                                GenerateTimeIntervals(Get(file, "INTERVAL_START"),
                                                      Get(file, "INTERVAL_END"),
                                                      Get(file, "INTERVAL_SPAN_TYPE"),
                                                      Get(file, "INTERVAL_SPAN_LENGTH")))
                  ELSE UNCHANGED worker_intervals
    /\ UNCHANGED <<start_date, end_date, num_vms, vm_ranges, provider_urls, vm_config,
                   dot_env, vm_created>>

BootIdle ==
    /\ provider_urls = <<>>
    /\ vm_config = <<>>
    /\ dot_env = <<>>
    /\ vm_created = <<>>
    /\ worker_error = <<>>
    /\ worker_intervals = <<>>

CtlIdle == EnvIdle /\ FleetIdle /\ MergeIdle /\ BootIdle

-----------------------------------------------------------------------------
(* Specifications *)

\* a call of the locator on any chain with any target
InitLocate ==
    /\ chain \in Chains
    /\ target_timestamp \in 0..MaxTs
    /\ latest_block_num = None
    /\ low = 1
    /\ high = 0
    /\ closest_block = None
    /\ lpc = "call"
    /\ probed = <<>>
    /\ CfgIdle
    /\ PlanIdle
    /\ SplitIdle
    /\ SumIdle
    /\ RunIdle
    /\ OrchIdle
    /\ CtlIdle

NextLocate ==
    \/ LocHead /\ UNCHANGED <<cfgVars, planVars, splitVars, sumVars, runVars, orchVars, ctlVars>>
    \/ LocProbe /\ UNCHANGED <<cfgVars, planVars, splitVars, sumVars, runVars, orchVars, ctlVars>>

SpecLocate == InitLocate /\ [][NextLocate]_vars

\* the call runs on: the loop is sequential code and every request of a probe
\* returns, with an answer or, after its timeout, without one
SpecLocateFair == SpecLocate /\ WF_vars(NextLocate)

\* a call of the planner on any configuration
InitPlan ==
    /\ start_dt \in MinuteTimes
    /\ end_dt \in MinuteTimes
    /\ interval_type \in IntervalTypes
    /\ interval_length \in Lengths
    /\ observations_per_interval = DefaultObservations
    /\ intervals = <<>>
    /\ ppc = "call"
    /\ LocIdle
    /\ SplitIdle
    /\ SumIdle
    /\ RunIdle
    /\ OrchIdle
    /\ CtlIdle

NextPlan == Plan /\ UNCHANGED <<locVars, splitVars, sumVars, runVars, orchVars, ctlVars>>

SpecPlan == InitPlan /\ [][NextPlan]_vars

\* the splitting of any global range over any number of VMs
InitSplit ==
    /\ start_date \in SplitTimes
    /\ end_date \in SplitTimes
    /\ num_vms \in 1..MaxVMs
    /\ vm_ranges = <<>>
    /\ LocIdle
    /\ CfgIdle
    /\ PlanIdle
    /\ SumIdle
    /\ RunIdle
    /\ OrchIdle
    /\ CtlIdle

NextSplit == AssignRange /\ UNCHANGED <<locVars, cfgVars, planVars, sumVars, runVars, orchVars, ctlVars>>

SpecSplit == InitSplit /\ [][NextSplit]_vars

\* the classification and the summaries of any block
InitClassify ==
    /\ block \in Blocks
    /\ transactions = <<>>
    /\ validators = <<>>
    /\ whale_result = <<>>
    /\ validators_result = <<>>
    /\ LocIdle
    /\ CfgIdle
    /\ PlanIdle
    /\ SplitIdle
    /\ RunIdle
    /\ OrchIdle
    /\ CtlIdle

NextClassify ==
    \/ ClassifyBlock /\ UNCHANGED <<locVars, cfgVars, planVars, splitVars, runVars, orchVars, ctlVars>>
    \/ Summarize /\ UNCHANGED <<locVars, cfgVars, planVars, splitVars, runVars, orchVars, ctlVars>>

SpecClassify == InitClassify /\ [][NextClassify]_vars

\* a run of the extractor on a VM, from the state __init__ leaves (status
\* STARTED, an empty data directory), with the orchestrator's cleanup looking on
Init ==
    /\ chain \in RunChains
    /\ start_dt \in RunStarts
    /\ end_dt \in RunEnds
    /\ interval_type \in RunTypes
    /\ interval_length \in RunLengths
    /\ observations_per_interval \in RunObservations
    /\ target_timestamp = 0
    /\ latest_block_num = None
    /\ low = 1
    /\ high = 0
    /\ closest_block = None
    /\ lpc = "idle"
    /\ probed = <<>>
    /\ PlanIdle
    /\ SplitIdle
    /\ SumIdle
    /\ pc = "start"
    /\ i = 0
    /\ start_block = None
    /\ end_block = None
    /\ block_num = None
    /\ fetched = <<>>
    /\ whale_file = NoFile
    /\ validator_file = NoFile
    /\ aggregated_results = NoAggregate
    /\ status_file = Status("STARTED", 0, 0, "")
    /\ raised = ""
    /\ OrchIdle
    /\ CtlIdle

Next ==
    \/ RunBegin /\ UNCHANGED <<splitVars, orchVars, ctlVars>>
    \/ RunStart /\ UNCHANGED <<splitVars, orchVars, ctlVars>>
    \/ LocHead /\ UNCHANGED <<cfgVars, planVars, splitVars, sumVars, runVars, orchVars, ctlVars>>
    \/ LocProbe /\ UNCHANGED <<cfgVars, planVars, splitVars, sumVars, runVars, orchVars, ctlVars>>
    \/ ResolveStart /\ UNCHANGED <<splitVars, orchVars, ctlVars>>
    \/ ResolveEnd /\ UNCHANGED <<splitVars, orchVars, ctlVars>>
    \/ FetchBlock /\ UNCHANGED <<splitVars, orchVars, ctlVars>>
    \/ SummarizeInterval /\ UNCHANGED <<splitVars, orchVars, ctlVars>>
    \/ Final /\ UNCHANGED <<splitVars, orchVars, ctlVars>>
    \/ CheckVmStatus /\ UNCHANGED <<locVars, cfgVars, planVars, splitVars, sumVars, runVars, ctlVars>>
    \/ DownloadData /\ UNCHANGED <<locVars, cfgVars, planVars, splitVars, sumVars, runVars, ctlVars>>

Spec == Init /\ [][Next]_vars

\* the construction of an extractor or an orchestrator on any environment
InitConfig ==
    /\ loader \in {"extractor", "orchestrator"}
    /\ env \in [KeySet(Required(loader)) -> EnvValues]
    /\ config_error = NoError
    /\ cpc = "call"
    /\ LocIdle
    /\ CfgIdle
    /\ PlanIdle
    /\ SplitIdle
    /\ SumIdle
    /\ RunIdle
    /\ OrchIdle
    /\ FleetIdle
    /\ MergeIdle
    /\ BootIdle

NextConfig ==
    \/ LoadConfig /\ UNCHANGED <<locVars, cfgVars, planVars, splitVars, sumVars, runVars, orchVars, fleetVars, mergeVars, bootVars>>
    \/ FinishInit /\ UNCHANGED <<locVars, cfgVars, planVars, splitVars, sumVars, runVars, orchVars, fleetVars, mergeVars, bootVars>>

SpecConfig == InitConfig /\ [][NextConfig]_vars

\* one command of the orchestrator, setup or cleanup, on any set of VMs left
\* in the project
InitFleet ==
    /\ cloud \in SUBSET (1..MaxFleet)
    /\ fleet_size \in 1..MaxFleet
    /\ command = ""
    /\ fpc = "start"
    /\ existing_vms = <<>>
    /\ setup_result = <<>>
    /\ cleanup_results = <<>>
    /\ completed_vms = <<>>
    /\ vm_k = 1
    /\ events = <<>>
    /\ local_dirs = {}
    /\ aggregated_from = <<>>
    /\ deploy_outcome = ""
    /\ LocIdle
    /\ CfgIdle
    /\ PlanIdle
    /\ SplitIdle
    /\ SumIdle
    /\ RunIdle
    /\ OrchIdle
    /\ EnvIdle
    /\ MergeIdle
    /\ BootIdle

NextFleet ==
    \/ SetupList /\ UNCHANGED <<locVars, cfgVars, planVars, splitVars, sumVars, runVars, orchVars, envVars, mergeVars, bootVars>>
    \/ SetupCreate /\ UNCHANGED <<locVars, cfgVars, planVars, splitVars, sumVars, runVars, orchVars, envVars, mergeVars, bootVars>>
    \/ DeployCommand /\ UNCHANGED <<locVars, cfgVars, planVars, splitVars, sumVars, runVars, orchVars, envVars, mergeVars, bootVars>>
    \/ CleanupList /\ UNCHANGED <<locVars, cfgVars, planVars, splitVars, sumVars, runVars, orchVars, envVars, mergeVars, bootVars>>
    \/ CleanupCheck /\ UNCHANGED <<locVars, cfgVars, planVars, splitVars, sumVars, runVars, orchVars, envVars, mergeVars, bootVars>>
    \/ CleanupDownload /\ UNCHANGED <<locVars, cfgVars, planVars, splitVars, sumVars, runVars, orchVars, envVars, mergeVars, bootVars>>
    \/ CleanupDelete /\ UNCHANGED <<locVars, cfgVars, planVars, splitVars, sumVars, runVars, orchVars, envVars, mergeVars, bootVars>>
    \/ CleanupAggregate /\ UNCHANGED <<locVars, cfgVars, planVars, splitVars, sumVars, runVars, orchVars, envVars, mergeVars, bootVars>>

SpecFleet == InitFleet /\ [][NextFleet]_vars

\* the merge steps, run up to MergeRuns times each, on the files any workers
\* can leave: aggregate_results on the directory of the first worker, as its
\* run left it, _aggregate_data on the directories downloaded from all of them
InitMerge ==
    /\ \E f \in [1..MaxFleet -> WorkerChoices] :
          /\ vm_data_dir = (IF f[1] = <<>> THEN <<>> ELSE WorkerDir(1, f[1]))
          /\ data_dir = DataDirOf(f)
    /\ downloaded_data = data_dir
    /\ merge_log = <<>>
    /\ LocIdle
    /\ CfgIdle
    /\ PlanIdle
    /\ SplitIdle
    /\ SumIdle
    /\ RunIdle
    /\ OrchIdle
    /\ EnvIdle
    /\ FleetIdle
    /\ BootIdle

NextMerge ==
    \/ AggregateResultsStep /\ UNCHANGED <<locVars, cfgVars, planVars, splitVars, sumVars, runVars, orchVars, envVars, fleetVars, bootVars>>
    \/ AggregateDataStep /\ UNCHANGED <<locVars, cfgVars, planVars, splitVars, sumVars, runVars, orchVars, envVars, fleetVars, bootVars>>

SpecMerge == InitMerge /\ [][NextMerge]_vars

\* the start of the workers of any run from the first or the second minute
\* to any time: the parsed provider list with one or
\* two entries, one of which may be empty; the observation budget and the
\* delay are handed on as the texts of their defaults
InitStartup ==
    /\ start_date \in {0, Minute}
    /\ end_date \in SplitTimes
    /\ num_vms \in 1..MaxWorkers
    /\ vm_ranges = <<>>
    /\ provider_urls \in {<<"url-a">>, <<"url-a", "url-b">>, <<"url-a", "">>}
    /\ \E type \in SupportedTypes, length \in {[num |-> 1, den |-> 1], [num |-> 1, den |-> 2]} :
          vm_config = [interval_type |-> type, interval_length |-> length,
                       observations |-> "100", delay |-> "0.05"]
    /\ dot_env = <<>>
    /\ vm_created = <<>>
    /\ worker_error = <<>>
    /\ worker_intervals = <<>>
    /\ LocIdle
    /\ CfgIdle
    /\ PlanIdle
    /\ SumIdle
    /\ RunIdle
    /\ OrchIdle
    /\ EnvIdle
    /\ FleetIdle
    /\ MergeIdle

NextStartup ==
    \/ CreateVm /\ UNCHANGED <<locVars, cfgVars, planVars, sumVars, runVars, orchVars, envVars, fleetVars, mergeVars>>
    \/ WorkerStart /\ UNCHANGED <<locVars, cfgVars, planVars, sumVars, runVars, orchVars, envVars, fleetVars, mergeVars>>

SpecStartup == InitStartup /\ [][NextStartup]_vars

-----------------------------------------------------------------------------
(* C1 *)

AllAnswered == \A k \in 1..Len(probed) : probed[k][2]

\* C1: when every probe is answered and the target is not before the
\* timestamp of block 1 (the first block of the search window), the locator
\* returns a block B with timestamp(B) <= target, and B is the head block or
\* target < timestamp(B + 1).
C1_LocatorFindsBlock ==
    (/\ lpc = "done"
     /\ ~Falsy(latest_block_num)
     /\ AllAnswered
     /\ BlockTs(chain, 1) <= target_timestamp)
    => /\ closest_block \in 1..latest_block_num
       /\ BlockTs(chain, closest_block) <= target_timestamp
       /\ \/ closest_block = latest_block_num
          \/ target_timestamp < BlockTs(chain, closest_block + 1)

\* a finished search of several probes that ends strictly inside the chain
C1_Witness ==
    /\ lpc = "done"
    /\ ~Falsy(latest_block_num)
    /\ AllAnswered
    /\ BlockTs(chain, 1) <= target_timestamp
    /\ Len(probed) >= 2
    /\ closest_block \in 1..(latest_block_num - 1)
    /\ target_timestamp < BlockTs(chain, closest_block + 1)

-----------------------------------------------------------------------------
(* C2 *)

effective_start == NormalizeToIntervalBoundary(start_dt, interval_type)
effective_end == NormalizeToIntervalBoundary(end_dt, interval_type)

\* C2: for a supported span kind and a positive span length, the list that
\* _generate_time_intervals returns is sorted, every interval has
\* start < end, each interval ends where the next starts, the first starts
\* at the aligned start and the last ends at the aligned end; the list is
\* empty exactly when [effective_start, effective_end) is empty.
C2_IntervalsPartition ==
    (ppc = "done" /\ interval_type \in SupportedTypes)
    => /\ \A k \in 1..Len(intervals) : intervals[k][1] < intervals[k][2]
       /\ \A k \in 1..(Len(intervals) - 1) : intervals[k][2] = intervals[k + 1][1]
       /\ intervals # <<>> =>
            /\ intervals[1][1] = effective_start
            /\ intervals[Len(intervals)][2] = effective_end
       /\ intervals = <<>> <=> effective_start >= effective_end

\* a plan of several intervals from an unaligned start, the last one cut short
C2_Witness ==
    /\ ppc = "done"
    /\ interval_type \in SupportedTypes
    /\ Len(intervals) >= 3
    /\ start_dt # effective_start
    /\ end_dt # effective_end
    /\ intervals[Len(intervals)][2] - intervals[Len(intervals)][1]
         < intervals[1][2] - intervals[1][1]

-----------------------------------------------------------------------------
(* C3 *)

\* C3: the ranges _get_vm_time_range emits are contiguous: VM 0 starts at
\* the global start, each VM ends where the next one starts, the last VM
\* ends at the global end; a nine-hour range over three VMs gives three
\* ranges of exactly three hours.
C3_RangesContiguous ==
    /\ \A k \in DOMAIN vm_ranges :
         /\ k = 0 => vm_ranges[k][1] = start_date
         /\ k = num_vms - 1 => vm_ranges[k][2] = end_date
         /\ (k + 1) \in DOMAIN vm_ranges => vm_ranges[k][2] = vm_ranges[k + 1][1]
    /\ (end_date - start_date = 9 * Hour /\ num_vms = 3) =>
         \A k \in DOMAIN vm_ranges : vm_ranges[k][2] - vm_ranges[k][1] = 3 * Hour

\* every VM of a run has its range, the division left a remainder, and the
\* ranges are not all empty
C3_Witness ==
    /\ num_vms >= 3
    /\ DOMAIN vm_ranges = 0..(num_vms - 1)
    /\ DurationPerVm(start_date, end_date, num_vms) * num_vms # end_date - start_date
    /\ \E k \in DOMAIN vm_ranges : vm_ranges[k][1] < vm_ranges[k][2]
    /\ vm_ranges[0][2] # end_date

-----------------------------------------------------------------------------
(* C4 *)

\* the exact thresholds of the claim
WhaleByClaim(t) == WeiGE(t.value, Wei(1, 0))
ValidatorByClaim(t) ==
    /\ t.to_address \in {DepositContract, DepositLower, DepositUpper}
    /\ WeiGE(t.value, Wei(32, 0))

\* C4: the whale count of a batch is the number of its transactions with
\* value >= 10^18 wei, and the transactions tagged validator are those whose
\* destination is the deposit contract in any letter case with
\* value >= 32 * 10^18 wei.
C4_ThresholdsExact ==
    whale_result # <<>> =>
      /\ Get(whale_result, "whale_count")
           = IntCell(Len(SelectSeq(transactions, WhaleByClaim)))
      /\ validators = SelectSeq(transactions, ValidatorByClaim)

\* the validator half of C4, which the code meets
C4_ValidatorExact ==
    transactions # <<>> => validators = SelectSeq(transactions, ValidatorByClaim)

-----------------------------------------------------------------------------
(* C5 *)

\* the states in which whale_result and transactions belong to the interval
\* whose rows were written last
IntervalWritten ==
    /\ whale_result # <<>>
    /\ pc \in {"resolve_start", "resolve_end", "final", "done", "raised"}

ZeroWhaleFields(d) ==
    \A key \in {"whale_count", "whale_avg_value_eth", "whale_total_value_eth"} :
        HasKey(d, key) /\ Get(d, key) = IntCell(0)

\* C5: the whale summary written for an interval without a whale transaction
\* (no transaction at all, or an unresolved block range, included) carries
\* whale_count, the whale average and the whale total as fields, all zero.
C5_EmptyWhaleSummaryHasZeros ==
    (IntervalWritten /\ SelectSeq(transactions, WhaleByClaim) = <<>>)
    => /\ ZeroWhaleFields(whale_result)
       /\ whale_file.rows[Len(whale_file.rows)] = Values(whale_result)

-----------------------------------------------------------------------------
(* C6 *)

LastRow(file) == ReadCsv(file)[Len(file.rows)]

\* C6: the final status is COMPLETED only if the last row of the output file
\* has interval_end equal to the requested end.
C6_CompletedOnlyAtRequestedEnd ==
    status_file.status = "COMPLETED"
    => Get(LastRow(validator_file), "interval_end") = Isoformat(end_dt)

-----------------------------------------------------------------------------
(* C7 *)

\* the block numbers start_block..end_block, in order
BlockNumbers(first, last) == [k \in 1..(last - first + 1) |-> first + k - 1]

\* the rows of the first n intervals, one per interval, in planner order
RowsOfIntervals(file, n) ==
    /\ Len(file.rows) = n
    /\ \A k \in 1..n :
         LET row == file.rows[k] IN
         /\ row[Len(row) - 1] = Isoformat(intervals[k][1])
         /\ row[Len(row)] = Isoformat(intervals[k][2])

IntervalsDone ==
    IF pc \in {"resolve_start", "resolve_end", "fetch", "summarize"} THEN i
    ELSE IF pc \in {"final", "done"} \/ raised = "ParserError" THEN Len(intervals)
    ELSE 0

\* C7: whatever queries fail, run() does not abort; a failed block fetch
\* skips that block only, every block of the range being visited; every
\* planned interval is processed once, in order, and yields one whale row and
\* one validator row.
C7_RunSurvivesFailures ==
    /\ intervals # <<>> => raised = ""
    /\ (pc = "summarize" /\ ~Unresolved(start_block, end_block))
         => [k \in 1..Len(fetched) |-> fetched[k][1]] = BlockNumbers(start_block, end_block)
    /\ RowsOfIntervals(whale_file, IntervalsDone)
    /\ RowsOfIntervals(validator_file, IntervalsDone)

\* what holds of the loop: C7 without the claim that run() never raises
C7_LoopProcessesEveryInterval ==
    /\ (pc = "summarize" /\ ~Unresolved(start_block, end_block))
         => [k \in 1..Len(fetched) |-> fetched[k][1]] = BlockNumbers(start_block, end_block)
    /\ RowsOfIntervals(whale_file, IntervalsDone)
    /\ RowsOfIntervals(validator_file, IntervalsDone)
    /\ raised \in {"", "ValueError", "UnboundLocalError", "ParserError"}
    /\ raised \in {"ValueError", "UnboundLocalError"} => intervals = <<>>

-----------------------------------------------------------------------------
(* C8 *)

\* C8: when the resolution of a bound of the interval fails,
\* _extract_interval_data returns two empty lists, fetches no full block and
\* raises nothing; when the head number is unavailable the locator returns
\* None without a probe.
C8_UnresolvedIntervalIsEmpty ==
    /\ (pc = "summarize" /\ (Falsy(start_block) \/ Falsy(end_block)))
         => /\ transactions = <<>>
            /\ validators = <<>>
            /\ fetched = <<>>
            /\ raised = ""
    /\ (pc \in {"fetch", "summarize"} /\ fetched # <<>>)
         => ~Falsy(start_block) /\ ~Falsy(end_block)
    /\ (lpc = "done" /\ Falsy(latest_block_num))
         => closest_block = None /\ probed = <<>>

\* the start of an interval was not resolved although the end was, the head
\* number being available, and the interval came out empty
C8_Witness ==
    /\ pc = "summarize"
    /\ start_block = None
    /\ end_block \in 1..HeadOf(chain)
    /\ AllAnswered
    /\ transactions = <<>>
    /\ fetched = <<>>

-----------------------------------------------------------------------------
(* C9 *)

\* C9: when the planner gives no interval, run() ends without an exception
\* and without the status FAILED.
C9_ZeroIntervalsValid ==
    (ppc = "done" /\ intervals = <<>>)
    => raised = "" /\ status_file.status # "FAILED"

-----------------------------------------------------------------------------
(* C10 *)

\* C10: the orchestrator reports the VM COMPLETED, and downloads its data,
\* only when the extractor's status is COMPLETED.
C10_CompletedOnlyWhenFinalized ==
    /\ results = "COMPLETED" => status_at_check = "COMPLETED"
    /\ (downloaded # <<>> /\ downloaded[1] = "SUCCESS")
         => status_at_check = "COMPLETED"

-----------------------------------------------------------------------------
(* C14 *)

\* a query of the chain is under way: a call of the locator or a block fetch
Querying == lpc \in {"call", "loop"} \/ pc = "fetch"

\* C14: intervals are processed one at a time in planner order, and while
\* the chain is queried for interval i+1 both output files hold exactly the
\* rows of the first i intervals, in order; after the loop they hold one row
\* per planned interval.
C14_RowsPrecedeNextQueries ==
    /\ Querying => pc \in {"resolve_start", "resolve_end", "fetch"}
    /\ pc \in {"resolve_start", "resolve_end", "fetch", "summarize"}
         => /\ i < Len(intervals)
            /\ RowsOfIntervals(whale_file, i)
            /\ RowsOfIntervals(validator_file, i)
    /\ pc \in {"final", "done"}
         => /\ RowsOfIntervals(whale_file, Len(intervals))
            /\ RowsOfIntervals(validator_file, Len(intervals))

\* the blocks of the second interval are fetched while the files hold the
\* row of the first
C14_Witness ==
    /\ pc = "fetch"
    /\ i = 1
    /\ Len(intervals) = 2
    /\ Len(whale_file.rows) = 1
    /\ Len(validator_file.rows) = 1

-----------------------------------------------------------------------------
(* C18 *)

\* the header of the file is the list of the keys of the dict, in order
ColumnsOf(file, data) == file.exists /\ file.header = Keys(data)

\* C18: each output file has the header it was created with, and every row
\* appended to it has the columns of that header: as many cells, in the
\* header's order.
C18_RowsMatchHeader ==
    /\ \A k \in 1..Len(whale_file.rows) :
         Len(whale_file.rows[k]) = Len(whale_file.header)
    /\ \A k \in 1..Len(validator_file.rows) :
         Len(validator_file.rows[k]) = Len(validator_file.header)
    /\ IntervalWritten
         => /\ ColumnsOf(whale_file, whale_result)
            /\ ColumnsOf(validator_file, validators_result)

-----------------------------------------------------------------------------
(* C20 *)

\* some block of the chain, genesis included, is not after the target
SomeBlockNotAfter == \E b \in 0..HeadOf(chain) : BlockTs(chain, b) <= target_timestamp

\* C20: the locator returns None only if the target predates genesis: when
\* the head number was obtained and some block of the chain has a timestamp
\* <= target, the locator returns a block number.
C20_NotFoundOnlyBeforeGenesis ==
    (lpc = "done" /\ ~Falsy(latest_block_num) /\ SomeBlockNotAfter)
    => closest_block # None

-----------------------------------------------------------------------------
(* C17 *)

\* the block numbers the sampled policy visits in a range of total_blocks
\* blocks with the given budget
SampledBlockNumbers(first, total_blocks, budget) ==
    [k \in 1..budget |-> first + ((k - 1) * total_blocks) \div budget]

\* the blocks visited for the interval, in order
Visited == [k \in 1..Len(fetched) |-> fetched[k][1]]

\* C17: under the sampled policy, a resolved range of more blocks than
\* OBSERVATIONS_PER_INTERVAL is visited at exactly that many block numbers,
\* start_block + floor(i * total_blocks / budget) for i in [0, budget), the
\* first being start_block; a range of no more blocks than the budget is
\* visited whole.
C17_SampledVisitsBudgetBlocks ==
    (pc = "summarize" /\ ~Unresolved(start_block, end_block) /\ start_block <= end_block)
    => LET total_blocks == end_block - start_block + 1 IN
       IF total_blocks > observations_per_interval
         THEN /\ Len(fetched) = observations_per_interval
              /\ Visited = SampledBlockNumbers(start_block, total_blocks,
                                               observations_per_interval)
              /\ Visited[1] = start_block
         ELSE Visited = BlockNumbers(start_block, end_block)

-----------------------------------------------------------------------------
(* C19 *)

\* C19: when a required key is missing or empty, _load_config of the
\* extractor and of the orchestrator raises before the object is constructed,
\* and the error names every missing key.
C19_MissingKeysNamed ==
    MissingKeys(env, Required(loader)) # <<>>
    => /\ cpc \in {"call", "raised"}
       /\ cpc = "raised"
            => /\ config_error.raised = "ValueError"
               /\ KeySet(config_error.named) = KeySet(MissingKeys(env, Required(loader)))

-----------------------------------------------------------------------------
(* C11 *)

\* the positions in events of the events of a kind
EventsOf(kind) == { p \in 1..Len(events) : events[p].kind = kind }

\* the status cleanup() recorded for a listed VM
StatusOf(vm) == Get(cleanup_results, ResultKey(vm, ""))

\* C11: cleanup() merges at most once, and only when every listed VM is
\* completed or marked failed: never while the status of a listed VM is
\* RUNNING.
C11_MergeOnlyWhenNoneRunning ==
    /\ Cardinality(EventsOf("merge")) <= 1
    /\ EventsOf("merge") # {}
         => \A k \in 1..Len(existing_vms) : StatusOf(existing_vms[k]) # "RUNNING"

-----------------------------------------------------------------------------
(* C12 *)

\* the deletions that gcloud carried out
Deleted == { p \in EventsOf("delete") : events[p].ok }

\* C12: finalizing goes download, merge, tear down: no VM is deleted before
\* its output was downloaded, and the merge comes before the deletions.
C12_DownloadMergeTearDown ==
    /\ \A p \in Deleted :
         \E q \in EventsOf("download") :
            q < p /\ events[q].vm = events[p].vm /\ events[q].ok
    /\ (fpc = "done" /\ EventsOf("merge") # {})
         => \A p \in Deleted : \E q \in EventsOf("merge") : q < p

-----------------------------------------------------------------------------
(* C13 *)

\* a VM of an earlier run existed when setup() was invoked: a VM of the
\* project that this setup() did not create
EarlierRunExists ==
    /\ command = "setup"
    /\ (cloud \ { events[p].vm[2] : p \in { q \in EventsOf("create") : events[q].ok } }) # {}

\* C13: setup() invoked while a VM of an earlier run exists creates no VM
\* and returns the existing-deployment signal, which the command layer
\* recognises; the existence check precedes every creation.
C13_ExistingDeploymentRejected ==
    /\ EarlierRunExists
         => /\ EventsOf("create") = {}
            /\ fpc \in {"returned", "done"} => Recognised(setup_result)
            /\ fpc = "done" => deploy_outcome = "existing_deployment"
    /\ \A p \in EventsOf("create") : \E q \in EventsOf("list") : q < p

-----------------------------------------------------------------------------
(* C15 *)

\* the interval of a row as run() wrote it: its last two cells
KeyOfRow(row) == <<row[Len(row) - 1], row[Len(row)]>>

\* the rows of the files of a directory list whose names pass a test
RowsWhere(dirs, Test(_)) ==
    Flatten([d \in 1..Len(dirs) |->
        Flatten([e \in 1..Len(dirs[d]) |->
            IF Test(dirs[d][e][1]) THEN dirs[d][e][2].rows ELSE <<>>])])

WhaleStream(dirs) == RowsWhere(dirs, LAMBDA n : EndsWith(n, <<"whale", "_transactions", ".csv">>))

ValidatorStream(dirs) ==
    RowsWhere(dirs, LAMBDA n : EndsWith(n, <<"validator", "_transactions", ".csv">>))

KeyEq(a, b) == CellEq(a[1], b[1]) /\ CellEq(a[2], b[2])

\* the names of the fields of a row as run() wrote it: the keys of the dict
\* it came from
FieldsOfRow(row) ==
    IF Len(row) = 2 THEN JoinColumns
    ELSE IF Len(row) = 5
      THEN <<"whale_count", "whale_avg_value_eth", "whale_total_value_eth">> \o JoinColumns
    ELSE <<"validator_count", "validator_total_value_eth", "validator_avg_value_eth",
           "validator_avg_gas_price">> \o JoinColumns

\* the row of the frame has every field of the written row, under its name
Carries(frame, row, written) ==
    \A j \in 1..Len(written) :
       /\ HasColumn(frame, FieldsOfRow(written)[j])
       /\ CellEq(Cell(frame, row, FieldsOfRow(written)[j]), written[j])

\* the file is the join of the two streams on (interval_start, interval_end):
\* its keys are those present in both, and each of its rows carries the
\* fields of the whale row and of the validator row of its key
IsJoinOf(file, whale, validator) ==
    LET frame == ReadFrame(file)
        KeyIn(row) == <<Cell(frame, row, "interval_start"), Cell(frame, row, "interval_end")>>
    IN  /\ \A k \in 1..Len(frame.rows) :
             \E w \in 1..Len(whale), v \in 1..Len(validator) :
                /\ KeyEq(KeyOfRow(whale[w]), KeyIn(frame.rows[k]))
                /\ KeyEq(KeyOfRow(validator[v]), KeyIn(frame.rows[k]))
                /\ Carries(frame, frame.rows[k], whale[w])
                /\ Carries(frame, frame.rows[k], validator[v])
        /\ \A w \in 1..Len(whale), v \in 1..Len(validator) :
              KeyEq(KeyOfRow(whale[w]), KeyOfRow(validator[v]))
              => \E k \in 1..Len(frame.rows) : KeyEq(KeyIn(frame.rows[k]), KeyOfRow(whale[w]))

\* C15: the merged output is the join of the whale-summary stream and the
\* validator-summary stream on (interval_start, interval_end): a key is in it
\* if and only if it is in both streams, and each merged row carries the
\* whale fields and the validator fields of its key; for the per-worker merge
\* and for the cross-worker merge.
C15_MergedOutputIsJoin ==
    \A k \in 1..Len(merge_log) :
       LET m == merge_log[k] IN
       IF m.who = "extractor"
         THEN IsJoinOf(FileOf(m.output, AggregatedResultsName),
                       WhaleStream(<<vm_data_dir>>), ValidatorStream(<<vm_data_dir>>))
         ELSE downloaded_data # <<>>
              => \E e \in 1..Len(m.output) :
                    IsJoinOf(m.output[e][2],
                             WhaleStream(Values(downloaded_data)),
                             ValidatorStream(Values(downloaded_data)))

-----------------------------------------------------------------------------
(* C16 *)

\* C16: a merge step run again on the same files leaves what the first run
\* left: the same aggregated output, without a duplicate row, and the same
\* input files, the output not being among them.
C16_MergeIdempotent ==
    \A who \in {"extractor", "orchestrator"} :
       \A k \in 2..Len(Merged(who)) :
          /\ Merged(who)[k].output = Merged(who)[1].output
          /\ Merged(who)[k].raised = Merged(who)[1].raised
          /\ Merged(who)[k].after = Merged(who)[1].after

\* both merge steps ran twice and each left an output with rows
C16_Witness ==
    /\ Len(Merged("extractor")) = MergeRuns
    /\ Len(Merged("orchestrator")) = MergeRuns
    /\ FileOf(vm_data_dir, AggregatedResultsName).rows # <<>>
    /\ HasKey(data_dir, AggregatedDir)
    /\ Len(FileOf(Get(data_dir, AggregatedDir), ValidatorsCsv).rows) >= 2
    /\ Len(FileOf(Get(data_dir, AggregatedDir), TransactionsCsv).rows) >= 2

-----------------------------------------------------------------------------
(* C21 *)

\* the probes that recorded their block as closest_block: answered, with a
\* timestamp not after the target
Recorded(p) == SelectSeq(p, LAMBDA e : e[2] /\ NotAfter(BlockTs(chain, e[1]), target_timestamp))

LastRecorded(p) == IF Recorded(p) = <<>> THEN None ELSE Recorded(p)[Len(Recorded(p))][1]

\* C21: the binary search of the locator terminates for every head number and
\* every pattern of probe answers: each iteration strictly shrinks the window
\* [low, high], the loop goes on exactly while the window is not empty, the
\* call ends, and what it returns is the last recorded closest_block.
C21_LocatorTerminates ==
    /\ [][lpc = "loop" => high' - low' < high - low]_vars
    /\ [](lpc = "loop" => low <= high)
    /\ []((lpc = "done" /\ ~Falsy(latest_block_num)) => low > high)
    /\ [](lpc = "done" => closest_block = LastRecorded(probed))
    /\ <>(lpc = "done")

\* a search that ended after a failed probe and a recorded one
C21_Witness ==
    /\ lpc = "done"
    /\ Len(probed) >= 3
    /\ \E k \in 1..Len(probed) : ~probed[k][2]
    /\ closest_block # None

-----------------------------------------------------------------------------
(* C22 *)

AllWorkers == 0..(num_vms - 1)

\* every worker of the run was created and its extractor was started
AllStarted ==
    /\ DOMAIN vm_created = AllWorkers
    /\ \A v \in AllWorkers : vm_created[v]
    /\ DOMAIN worker_error = AllWorkers

\* the ticks of an interval [start, end)
TicksOf(interval) == interval[1]..(interval[2] - 1)

\* the intervals of the worker v in the plans, none when it planned nothing
IntervalsOf(plans, v) == IF v \in DOMAIN plans THEN plans[v].intervals ELSE <<>>

\* no two intervals of different workers share a tick or a key
Disjoint(plans) ==
    \A v, w \in AllWorkers : v # w =>
       \A a \in 1..Len(IntervalsOf(plans, v)), b \in 1..Len(IntervalsOf(plans, w)) :
          /\ TicksOf(IntervalsOf(plans, v)[a]) \cap TicksOf(IntervalsOf(plans, w)[b]) = {}
          /\ IntervalsOf(plans, v)[a] # IntervalsOf(plans, w)[b]

\* the intervals of all workers cover the aligned global range and no more
Covers(plans) ==
    UNION { TicksOf(IntervalsOf(plans, v)[a]) :
              <<v, a>> \in { <<w, b>> \in AllWorkers \X (1..(MaxMinute + 1) * Minute) :
                               b <= Len(IntervalsOf(plans, w)) } }
      = NormalizeToIntervalBoundary(start_date, vm_config.interval_type)
        ..(NormalizeToIntervalBoundary(end_date, vm_config.interval_type) - 1)

\* the plans the workers would make of the sub-ranges _get_vm_time_range
\* assigned, were these handed to the planner as INTERVAL_START, INTERVAL_END
PlansOfRanges ==
    [v \in DOMAIN vm_ranges |->
        GenerateTimeIntervals(vm_ranges[v][1], vm_ranges[v][2],
                              vm_config.interval_type, vm_config.interval_length)]

\* the assigned sub-ranges, aligned and planned, partition the aligned range
RangesPlannedPartition ==
    /\ Disjoint(PlansOfRanges)
    /\ DOMAIN vm_ranges = AllWorkers => Covers(PlansOfRanges)

\* C22: across the workers of one run, the intervals the workers plan are
\* pairwise non-overlapping, no key (interval_start, interval_end) is planned
\* by two workers, and once every worker has started the intervals together
\* cover exactly the range from the aligned global start to the aligned
\* global end.
C22_WorkersPartitionRange ==
    /\ Disjoint(worker_intervals)
    /\ AllStarted => Covers(worker_intervals)

-----------------------------------------------------------------------------
(* C23 *)

\* C23: the .env the orchestrator writes for worker i holds every key the
\* extractor requires, under the name the extractor reads, its endpoint is
\* endpoints[i mod number_of_endpoints], and no created worker's extractor
\* stops with a missing-configuration error.
C23_StartupConfigComplete ==
    /\ \A v \in DOMAIN dot_env :
          /\ \A k \in 1..Len(ExtractorRequired) : HasKey(dot_env[v], ExtractorRequired[k])
          /\ Get(dot_env[v], "ETHEREUM_PROVIDER_URL")
               = provider_urls[(v % Len(provider_urls)) + 1]
    /\ \A v \in DOMAIN worker_error : worker_error[v].raised = ""

\* the round-robin half alone
EndpointsRoundRobin ==
    \A v \in DOMAIN dot_env :
       Get(dot_env[v], "ETHEREUM_PROVIDER_URL") = provider_urls[(v % Len(provider_urls)) + 1]

-----------------------------------------------------------------------------
(* C24 *)

Terminal(s) == s.status \in {"COMPLETED", "FAILED"}

\* the status b may follow the status a in the file
StatusFollows(a, b) ==
    \/ /\ a.status = "STARTED"
       /\ b = Status("RUNNING", 0, 0, "")
    \/ /\ a = Status("RUNNING", 0, 0, "")
       /\ b = Status("RUNNING", 1, Len(intervals'), "")
    \/ /\ a.status = "RUNNING" /\ a.done >= 1
       /\ b = Status("RUNNING", a.done + 1, a.total, "")
    \/ /\ a.status = "RUNNING" /\ a.done >= 1 /\ a.done = a.total
       /\ b = Status("COMPLETED", a.done, a.total, "")
    \/ /\ ~Terminal(a)
       /\ b.status = "FAILED"

\* C24: the status file holds STARTED, then RUNNING 0/0, then RUNNING k/n for
\* k = 1..n in increasing order, then one terminal status, COMPLETED or
\* FAILED, after which it does not change; k <= n throughout, n is the number
\* of planned intervals, and COMPLETED follows RUNNING n/n only, every
\* planned interval having left its row.
C24_StatusSequence ==
    /\ [][status_file' # status_file => StatusFollows(status_file, status_file')]_vars
    /\ [](pc = "start" => status_file = Status("STARTED", 0, 0, ""))
    /\ [](status_file.done <= status_file.total)
    /\ []((status_file.status = "RUNNING" /\ status_file.done >= 1)
            => (status_file.total = Len(intervals)
                /\ status_file.done = Len(validator_file.rows)))
    /\ [](status_file.status = "COMPLETED"
            => /\ status_file.done = Len(intervals)
               /\ Len(validator_file.rows) = Len(intervals)
               /\ pc = "done")

\* a run of two intervals that ended COMPLETED 2/2
C24_Witness ==
    /\ status_file = Status("COMPLETED", 2, 2, "")
    /\ Len(intervals) = 2

\* a run that ended FAILED after RUNNING 2/2
C24_FailedAfterAll ==
    /\ status_file.status = "FAILED"
    /\ Len(intervals) = 2
    /\ Len(validator_file.rows) = 2

=============================================================================
